---- MODULE Spec2Model ----
(***************************************************************************)
(* State-machine model of the quantum key demo server and its helpers:     *)
(*   src/api_server_short.py  ThreadSafeCache, QuantumCircuitPool,         *)
(*                            OptimizedQuantumDES, the four endpoints      *)
(*   src/quantumkey.py        the error-rate verdict of main,              *)
(*                            verify_bell_inequality, estimate_error_rate, *)
(*                            privacy_amplification                        *)
(*   src/keydes.py            the key-establishment retry loop,            *)
(*                            QuantumDES._bits_to_bytes                    *)
(*                                                                         *)
(* Python values are tagged records so that None, lists, strings and dicts *)
(* can be compared with one another.                                       *)
(***************************************************************************)
EXTENDS Integers, Sequences, FiniteSets, TLC

(* ------------------------------------------------------------------ *)
(* Python values                                                        *)
(* ------------------------------------------------------------------ *)
PyNone == [tag |-> "None"]
PyList(s) == [tag |-> "list", v |-> s]
PyStr(s) == [tag |-> "str", v |-> s]
PyDict(d) == [tag |-> "dict", v |-> d]
PyInt(n) == [tag |-> "int", v |-> n]

\* Python truthiness of a value (`if x:` / `not x`).
Truthy(x) ==
    CASE x.tag = "None" -> FALSE
      [] x.tag = "list" -> Len(x.v) > 0
      [] x.tag = "str" -> x.v # ""
      [] x.tag = "dict" -> DOMAIN x.v # {}
      [] x.tag = "int" -> x.v # 0

\* dict.get(k): the value stored under k, None when absent.
DictGet(d, k) == IF k \in DOMAIN d.v THEN d.v[k] ELSE PyNone

(* ------------------------------------------------------------------ *)
(* Bit sequences                                                        *)
(* ------------------------------------------------------------------ *)
\* Length of every key the server generates (range(64), length=64).
KeyLen == 64

\* The bit sequence of length n whose first k bits are 1 and the rest 0.
Ones(k, n) == [i \in 1..n |-> IF i <= k THEN 1 ELSE 0]

Roles == {"classic", "quantum", "eve"}

(* ------------------------------------------------------------------ *)
(* ThreadSafeCache: the dictionary and the operations' bodies           *)
(* ------------------------------------------------------------------ *)
\* self._cache as __init__ builds it.
FreshCache ==
    [k \in {"keys", "circuits", "measurements", "qber_history"} |->
        CASE k = "keys" -> PyDict([r \in Roles |-> PyNone])
          [] k = "circuits" -> PyList(<<>>)
          [] k = "measurements" -> PyDict(<<>>)
          [] k = "qber_history" -> PyList(<<>>)]

\* Body of get(key, subkey); subkey is a Python value (None when omitted).
CacheGet(c, key, subkey) ==
    IF Truthy(subkey)
    THEN IF key \notin DOMAIN c \/ c[key].tag # "dict"
         THEN PyNone
         ELSE DictGet(c[key], subkey.v)
    ELSE IF key \in DOMAIN c THEN c[key] ELSE PyNone

\* A mutant of CacheSet: the three-parameter form replaces the whole entry.
CacheSetClobber(c, key, subkey, value) ==
    IF value = PyNone
    THEN (key :> subkey) @@ c
    ELSE (key :> PyDict((subkey.v :> value))) @@ c

\* Body of set(key, subkey, value): with value None the second argument is
\* stored as the entry itself, otherwise it names the slot of the entry's dict.
CacheSet(c, key, subkey, value) ==
    IF value = PyNone
    THEN (key :> subkey) @@ c
    ELSE LET inner == IF key \in DOMAIN c /\ c[key].tag = "dict"
                      THEN c[key].v
                      ELSE <<>>
         IN (key :> PyDict((subkey.v :> value) @@ inner)) @@ c

\* What get("keys", role) returns on cache c.
RoleOf(c, role) == CacheGet(c, "keys", PyStr(role))

(* ------------------------------------------------------------------ *)
(* OptimizedQuantumDES                                                  *)
(* ------------------------------------------------------------------ *)
\* A failed operation (a raised exception) where a sequence of bytes or
\* characters is expected: no byte, character or code point is negative.
Raised == <<-1>>

\* key_bits + [0] * (64 - len(key_bits)): a non-positive count adds nothing.
PadBits(key_bits) ==
    key_bits \o [i \in 1..(IF Len(key_bits) < 64 THEN 64 - Len(key_bits) ELSE 0) |-> 0]

\* byte = (byte << 1) | bits[i + j] for j = 0..7, from position `from` (1-based).
RECURSIVE PackByte(_, _, _, _)
PackByte(bits, from, j, byte) ==
    IF j = 8 THEN byte
    ELSE PackByte(bits, from, j + 1, byte * 2 + bits[from + j])

\* A mutant of KeyBytes: the bits of each byte are packed in reverse order.
KeyBytesLsbFirst(key_bits) ==
    LET bits == PadBits(key_bits)
        RevByte(from) ==
            bits[from] + 2 * bits[from + 1] + 4 * bits[from + 2] + 8 * bits[from + 3]
            + 16 * bits[from + 4] + 32 * bits[from + 5] + 64 * bits[from + 6]
            + 128 * bits[from + 7]
    IN [b \in 1..8 |-> RevByte(8 * (b - 1) + 1)]

\* OptimizedQuantumDES.__init__: self.key, 8 bytes from the first 64 bits.
KeyBytes(key_bits) ==
    LET bits == PadBits(key_bits)
    IN [b \in 1..8 |-> PackByte(bits, 8 * (b - 1) + 1, 0, 0)]

\* str.encode(): UTF-8 of a string given as its code points (below 2048).
RECURSIVE Utf8Encode(_)
Utf8Encode(cps) ==
    IF cps = <<>> THEN <<>>
    ELSE LET c == Head(cps)
         IN (IF c < 128 THEN <<c>> ELSE <<192 + (c \div 64), 128 + (c % 64)>>)
            \o Utf8Encode(Tail(cps))

\* bytes.decode(): the code points, or Raised on malformed UTF-8.
RECURSIVE Utf8Decode(_)
Utf8Decode(bytes) ==
    IF bytes = <<>> THEN <<>>
    ELSE LET b == Head(bytes)
         IN IF b < 128
            THEN LET rest == Utf8Decode(Tail(bytes))
                 IN IF rest = Raised THEN Raised ELSE <<b>> \o rest
            ELSE IF b >= 194 /\ b < 224 /\ Len(bytes) >= 2
                    /\ bytes[2] >= 128 /\ bytes[2] < 192
            THEN LET rest == Utf8Decode(Tail(Tail(bytes)))
                 IN IF rest = Raised THEN Raised
                    ELSE <<(b - 192) * 64 + (bytes[2] - 128)>> \o rest
            ELSE Raised

\* Crypto.Util.Padding.pad(data, 8): PKCS#7.
Pad(data) ==
    LET n == 8 - (Len(data) % 8)
    IN data \o [i \in 1..n |-> n]

\* A mutant of Unpad: one byte too many is stripped.
UnpadOneMore(data) ==
    IF Len(data) = 0 \/ Len(data) % 8 # 0 THEN Raised
    ELSE SubSeq(data, 1, Len(data) - 2)

\* Crypto.Util.Padding.unpad(data, 8): the data without its padding, or
\* Raised when the padding is malformed.
Unpad(data) ==
    IF Len(data) = 0 \/ Len(data) % 8 # 0 THEN Raised
    ELSE LET n == data[Len(data)]
         IN IF n < 1 \/ n > 8 THEN Raised
            ELSE IF \E i \in (Len(data) - n + 1)..Len(data) : data[i] # n THEN Raised
            ELSE SubSeq(data, 1, Len(data) - n)

\* The block cipher is the library's; it is modelled by a keyed bijection on
\* bytes that, like DES, ignores the low (parity) bit of every key byte.
BlockEncrypt(key, data) ==
    [i \in 1..Len(data) |->
        (data[i] + (key[((i - 1) % 8) + 1] \div 2) + ((i - 1) % 8) + 1) % 256]

\* cipher.decrypt: Raised unless the data is a whole number of blocks.
BlockDecrypt(key, data) ==
    IF Len(data) % 8 # 0 THEN Raised
    ELSE [i \in 1..Len(data) |->
            (data[i] + 512 - (key[((i - 1) % 8) + 1] \div 2) - (((i - 1) % 8) + 1)) % 256]

\* base64.b64encode(...).decode(): characters as alphabet indices 0..63, with
\* 64 for the padding character '='.
RECURSIVE B64Encode(_)
B64Encode(bytes) ==
    IF bytes = <<>> THEN <<>>
    ELSE LET n == Len(bytes)
             b1 == bytes[1]
             b2 == IF n >= 2 THEN bytes[2] ELSE 0
             b3 == IF n >= 3 THEN bytes[3] ELSE 0
             v == b1 * 65536 + b2 * 256 + b3
         IN <<v \div 262144,
              (v \div 4096) % 64,
              IF n >= 2 THEN (v \div 64) % 64 ELSE 64,
              IF n >= 3 THEN v % 64 ELSE 64>>
            \o (IF n > 3 THEN B64Encode(SubSeq(bytes, 4, n)) ELSE <<>>)

\* base64.b64decode: the bytes, or Raised on incorrect padding.
RECURSIVE B64Decode(_)
B64Decode(chars) ==
    IF chars = <<>> THEN <<>>
    ELSE IF Len(chars) < 4 THEN Raised
    ELSE LET c == SubSeq(chars, 1, 4)
             last == Len(chars) = 4
             pads == IF c[4] = 64 THEN (IF c[3] = 64 THEN 2 ELSE 1) ELSE 0
             s3 == IF c[3] = 64 THEN 0 ELSE c[3]
             s4 == IF c[4] = 64 THEN 0 ELSE c[4]
             v == c[1] * 262144 + c[2] * 4096 + s3 * 64 + s4
             out == SubSeq(<<v \div 65536, (v \div 256) % 256, v % 256>>, 1, 3 - pads)
         IN IF c[1] = 64 \/ c[2] = 64 \/ (c[3] = 64 /\ c[4] # 64) \/ (pads > 0 /\ ~last)
            THEN Raised
            ELSE LET rest == B64Decode(SubSeq(chars, 5, Len(chars)))
                 IN IF rest = Raised THEN Raised ELSE out \o rest

\* OptimizedQuantumDES(key_bits).encrypt(message): message is a Python value.
DesEncrypt(key_bits, message) ==
    IF message.tag # "str" THEN Raised
    ELSE B64Encode(BlockEncrypt(KeyBytes(key_bits), Pad(Utf8Encode(message.v))))

\* OptimizedQuantumDES(key_bits).decrypt(encrypted_message).
DesDecrypt(key_bits, encrypted_message) ==
    IF encrypted_message.tag # "str" THEN Raised
    ELSE LET raw == B64Decode(encrypted_message.v)
         IN IF raw = Raised THEN Raised
            ELSE LET plain == BlockDecrypt(KeyBytes(key_bits), raw)
                 IN IF plain = Raised THEN Raised
                    ELSE LET data == Unpad(plain)
                         IN IF data = Raised THEN Raised ELSE Utf8Decode(data)

(* ------------------------------------------------------------------ *)
(* Bounds of the model                                                  *)
(* ------------------------------------------------------------------ *)
\* Calls made on the cache object by its client threads (SpecCache).
MaxCalls == 3

(* ------------------------------------------------------------------ *)
(* State                                                                *)
(* ------------------------------------------------------------------ *)
VARIABLES
    cache,      \* ThreadSafeCache._cache
    lock,       \* ThreadSafeCache._lock: the identity of the current lock object
    nlocks,     \* lock objects created so far (identities 0..nlocks-1)
    heldLocks,  \* identities of the lock objects that are held
    cpc,        \* client thread -> position inside its cache call
    ccall,      \* client thread -> the call it makes (or made last)
    clk,        \* client thread -> the lock object its `with` statement evaluated
    cret,       \* client thread -> value returned by its last get
    ncalls,     \* calls started so far
    cleared,    \* history: a clear() has reset the cache and no set has stored since
    vq,         \* verdict check: the measured value handed to a classifier
    vres,       \* verdict check: what the classifier decided
    kpc,        \* keydes: position in the key-establishment loop
    shared_key, \* keydes: shared_key of simulate_iot_cloud_communication
    serial,     \* server: TRUE when one client issues its requests one at a time
    pc,         \* server: worker thread -> position inside its request handler
    req,        \* server: worker thread -> the request it serves (or served last)
    loc,        \* server: worker thread -> local variables of the handler
    resp,       \* server: worker thread -> the response it returned last
    tasks,      \* server: worker thread -> its generate_quantum_key invocations
    pool,       \* QuantumCircuitPool.circuits
    ncirc,      \* circuits created so far
    eveAlias,   \* the worker whose eve_attempt_key list is the object in the eve slot
    nreq,       \* requests started so far
    sent        \* history: the last ciphertext an encrypt request returned

cacheVars == <<cache, lock, nlocks, heldLocks, cpc, ccall, clk, cret, ncalls, cleared>>
verdictVars == <<vq, vres>>
retryVars == <<kpc, shared_key>>
lockVars == <<lock, nlocks, heldLocks, cpc, ccall, clk, cret, ncalls, cleared>>
serverVars == <<serial, pc, req, loc, resp, tasks, pool, ncirc, eveAlias, nreq, sent>>

\* What the clients of the cache object never touch.
notCacheVars == <<verdictVars, retryVars, serverVars>>

\* What the request handlers never touch.
notServerVars == <<verdictVars, retryVars, lockVars>>

vars == <<cacheVars, verdictVars, retryVars, serverVars>>

(* ------------------------------------------------------------------ *)
(* ThreadSafeCache under concurrent callers (SpecCache)                 *)
(* ------------------------------------------------------------------ *)
CThreads == {"c1", "c2", "c3"}

\* Two distinguishable 64-bit keys.
KeyA == PyList(Ones(0, KeyLen))
KeyB == PyList(Ones(KeyLen, KeyLen))

NoCall == [op |-> "none"]

\* The calls a client may make: get("keys", role), get("keys"),
\* set("keys", role, value), set("keys", role) and clear().
CacheCalls ==
    [op : {"get"}, key : {"keys"}, subkey : {PyStr(r) : r \in Roles} \cup {PyNone}]
    \cup [op : {"set"}, key : {"keys"}, subkey : {PyStr(r) : r \in Roles},
          value : {KeyA, KeyB, PyNone}]
    \cup {[op |-> "clear"]}

\* The parts of the state a specification does not exercise stay as constructed.
IdleCacheClients ==
    /\ lock = 0
    /\ nlocks = 1
    /\ heldLocks = {}
    /\ cpc = [t \in CThreads |-> "idle"]
    /\ ccall = [t \in CThreads |-> NoCall]
    /\ clk = [t \in CThreads |-> 0]
    /\ cret = [t \in CThreads |-> PyNone]
    /\ ncalls = 0
    /\ cleared = FALSE

IdleVerdict == vq = [kind |-> "none"] /\ vres = [verdict |-> "pending"]

IdleRetry == kpc = "off" /\ shared_key = <<>>

\* pool_size of QuantumCircuitPool.
PoolSize == 5

Workers == {"w1", "w2"}
TaskNames == {"q", "e"}

\* A two-qubit circuit of the pool; the pooled circuits are alike.
Circuit == "QuantumCircuit(q, c)"
NoCircuit == "none"

NoTask == [st |-> "off", circuit |-> NoCircuit, key |-> <<>>, returned |-> FALSE]
NoReq == [op |-> "none"]
NoResp == [code |-> 0]
NoSent == [sealed |-> FALSE, ct |-> <<>>, message |-> PyNone, key_type |-> PyNone,
           key |-> PyNone]
EmptyLoc ==
    [current_key |-> PyNone, eve_key |-> PyNone, eve_attempt_key |-> <<>>,
     correct_bits |-> 0, i |-> 0, classic_key |-> <<>>, quantum_key |-> <<>>,
     eve_bits |-> <<>>, src |-> NoSent]

\* The server as the module leaves it: an empty cache, a full circuit pool.
ServerStart ==
    /\ pc = [t \in Workers |-> "idle"]
    /\ req = [t \in Workers |-> NoReq]
    /\ loc = [t \in Workers |-> EmptyLoc]
    /\ resp = [t \in Workers |-> NoResp]
    /\ tasks = [t \in Workers |-> [k \in TaskNames |-> NoTask]]
    /\ pool = [i \in 1..PoolSize |-> Circuit]
    /\ ncirc = PoolSize
    /\ eveAlias = "none"
    /\ nreq = 0
    /\ sent = NoSent

IdleServer == serial = FALSE /\ ServerStart

InitCache ==
    /\ IdleVerdict
    /\ IdleRetry
    /\ IdleServer
    /\ cache = FreshCache
    /\ lock = 0
    /\ nlocks = 1
    /\ heldLocks = {}
    /\ cpc = [t \in CThreads |-> "idle"]
    /\ ccall = [t \in CThreads |-> NoCall]
    /\ clk = [t \in CThreads |-> 0]
    /\ cret = [t \in CThreads |-> PyNone]
    /\ ncalls = 0
    /\ cleared = FALSE

\* A client enters get/set/clear: `with self._lock` evaluates self._lock.
CCall(t) ==
    /\ cpc[t] = "idle"
    /\ ncalls < MaxCalls
    /\ \E c \in CacheCalls :
          ccall' = [ccall EXCEPT ![t] = c]
    /\ clk' = [clk EXCEPT ![t] = lock]
    /\ cpc' = [cpc EXCEPT ![t] = "acquire"]
    /\ ncalls' = ncalls + 1
    /\ UNCHANGED <<cache, lock, nlocks, heldLocks, cret, cleared>>
    /\ UNCHANGED notCacheVars

\* __enter__ of the lock object the thread evaluated: blocks while it is held.
CAcquire(t) ==
    /\ cpc[t] = "acquire"
    /\ clk[t] \notin heldLocks
    /\ heldLocks' = heldLocks \cup {clk[t]}
    /\ cpc' = [cpc EXCEPT ![t] = "body"]
    /\ UNCHANGED <<cache, lock, nlocks, ccall, clk, cret, ncalls, cleared>>
    /\ UNCHANGED notCacheVars

CGetBody(t) ==
    /\ cpc[t] = "body"
    /\ ccall[t].op = "get"
    /\ cret' = [cret EXCEPT ![t] = CacheGet(cache, ccall[t].key, ccall[t].subkey)]
    /\ cpc' = [cpc EXCEPT ![t] = "exit"]
    /\ UNCHANGED <<cache, lock, nlocks, heldLocks, ccall, clk, ncalls, cleared>>
    /\ UNCHANGED notCacheVars

CSetBody(t) ==
    /\ cpc[t] = "body"
    /\ ccall[t].op = "set"
    /\ cache' = CacheSet(cache, ccall[t].key, ccall[t].subkey, ccall[t].value)
    /\ cleared' = FALSE
    /\ cpc' = [cpc EXCEPT ![t] = "exit"]
    /\ UNCHANGED <<lock, nlocks, heldLocks, ccall, clk, cret, ncalls>>
    /\ UNCHANGED notCacheVars

\* A mutant of CClearCache: the reset leaves the eve slot as it was.
CClearCacheKeepsEve(t) ==
    /\ cpc[t] = "body"
    /\ ccall[t].op = "clear"
    /\ cache' = CacheSet(FreshCache, "keys", PyStr("eve"), RoleOf(cache, "eve"))
    /\ cleared' = TRUE
    /\ cpc' = [cpc EXCEPT ![t] = "clear_lock"]
    /\ UNCHANGED <<lock, nlocks, heldLocks, ccall, clk, cret, ncalls>>
    /\ UNCHANGED notCacheVars

\* clear() runs self.__init__(): first statement, self._cache = {...}
CClearCache(t) ==
    /\ cpc[t] = "body"
    /\ ccall[t].op = "clear"
    /\ cache' = FreshCache
    /\ cleared' = TRUE
    /\ cpc' = [cpc EXCEPT ![t] = "clear_lock"]
    /\ UNCHANGED <<lock, nlocks, heldLocks, ccall, clk, cret, ncalls>>
    /\ UNCHANGED notCacheVars

\* ... second statement, self._lock = threading.Lock(): a new, free lock object.
CClearLock(t) ==
    /\ cpc[t] = "clear_lock"
    /\ lock' = nlocks
    /\ nlocks' = nlocks + 1
    /\ cpc' = [cpc EXCEPT ![t] = "exit"]
    /\ UNCHANGED <<cache, heldLocks, ccall, clk, cret, ncalls, cleared>>
    /\ UNCHANGED notCacheVars

\* __exit__ releases the lock object that was acquired.
CRelease(t) ==
    /\ cpc[t] = "exit"
    /\ heldLocks' = heldLocks \ {clk[t]}
    /\ cpc' = [cpc EXCEPT ![t] = "idle"]
    /\ UNCHANGED <<cache, lock, nlocks, ccall, clk, cret, ncalls, cleared>>
    /\ UNCHANGED notCacheVars

NextCache ==
    \E t \in CThreads :
        \/ CCall(t)
        \/ CAcquire(t)
        \/ CGetBody(t)
        \/ CSetBody(t)
        \/ CClearCache(t)
        \/ CClearLock(t)
        \/ CRelease(t)

SpecCache == InitCache /\ [][NextCache]_vars

\* A thread holds the lock it acquired and has statements of the body of get,
\* set or clear still to run (a thread at "exit" has only the release left).
InCritical(t) == cpc[t] \in {"body", "clear_lock"}

(* ------------------------------------------------------------------ *)
(* The two verdict classifiers (SpecVerdict)                            *)
(* ------------------------------------------------------------------ *)
\* Largest sample size of an error-rate estimate handed to the classifier.
MaxSample == 16

\* A mutant of EveBucket: the safe bucket ends below 16.
EveBucketStrict(matches) ==
    IF matches < 16 THEN "safe"
    ELSE IF matches < 24 THEN "significant"
    ELSE IF matches < 32 THEN "critical"
    ELSE "severe"

\* eve_attack, quantum branch: the bucket chosen for a count of matching bits
\* (the if/elif chain on matches; the bucket shows in log_msg).
EveBucket(matches) ==
    IF matches <= 16 THEN "safe"
    ELSE IF matches < 24 THEN "significant"
    ELSE IF matches < 32 THEN "critical"
    ELSE "severe"

\* error_rate <= num/den for error_rate = errors / sample_size.  The
\* thresholds 0.25, 0.359375 and 0.5 are dyadic, so the float comparison
\* agrees with the exact one for every sample size the function can take.
RateLeq(errors, sample_size, num, den) == errors * den <= num * sample_size

\* A mutant of RateVerdict: the first comparison is strict.
RateVerdictStrict(errors, sample_size) ==
    IF errors * 4 < sample_size THEN "safe"
    ELSE IF RateLeq(errors, sample_size, 359375, 1000000) THEN "significant"
    ELSE IF RateLeq(errors, sample_size, 5, 10) THEN "critical"
    ELSE "severe"

\* quantumkey.main, step 2: the if/elif chain on error_rate.
RateVerdict(errors, sample_size) ==
    IF RateLeq(errors, sample_size, 25, 100) THEN "safe"
    ELSE IF RateLeq(errors, sample_size, 359375, 1000000) THEN "significant"
    ELSE IF RateLeq(errors, sample_size, 5, 10) THEN "critical"
    ELSE "severe"

\* quantumkey.main: every branch but the first returns (no final key).
RateDiscards(verdict) == verdict # "safe"

VerdictInputs ==
    [kind : {"count"}, matches : 0..KeyLen]
    \cup {[kind |-> "rate", errors |-> e, sample_size |-> n] :
             e \in 0..MaxSample, n \in 1..MaxSample}

InitVerdict ==
    /\ cache = FreshCache
    /\ IdleCacheClients
    /\ IdleRetry
    /\ IdleServer
    /\ vq \in {q \in VerdictInputs : q.kind = "rate" => q.errors <= q.sample_size}
    /\ vres = [verdict |-> "pending"]

ClassifyCount ==
    /\ vq.kind = "count"
    /\ vres.verdict = "pending"
    /\ vres' = [verdict |-> EveBucket(vq.matches),
                regenerates |-> EveBucket(vq.matches) # "safe"]
    /\ UNCHANGED <<vq, cacheVars, retryVars, serverVars>>

ClassifyRate ==
    /\ vq.kind = "rate"
    /\ vres.verdict = "pending"
    /\ vres' = [verdict |-> RateVerdict(vq.errors, vq.sample_size),
                discards |-> RateDiscards(RateVerdict(vq.errors, vq.sample_size))]
    /\ UNCHANGED <<vq, cacheVars, retryVars, serverVars>>

NextVerdict == ClassifyCount \/ ClassifyRate

SpecVerdict == InitVerdict /\ [][NextVerdict]_vars

\* The measured value lies exactly on the threshold num/64.
OnThreshold(num) ==
    \/ vq.kind = "count" /\ vq.matches = num
    \/ vq.kind = "rate" /\ vq.errors * 64 = num * vq.sample_size

Classified == vres.verdict # "pending"

C7_RateTable ==
    (Classified /\ vq.kind = "rate") =>
        LET e == vq.errors * 64
            n == vq.sample_size
        IN /\ vres.verdict =
                (IF e <= 16 * n THEN "safe"
                 ELSE IF e < 24 * n THEN "significant"
                 ELSE IF e < 32 * n THEN "critical"
                 ELSE "severe")
           /\ vres.discards = (vres.verdict # "safe")

\* C7 as amended: r <= 16/64 accepted, 16/64 < r <= 23/64 significant,
\* 23/64 < r <= 32/64 critical, r > 32/64 severe; exactly one verdict for
\* every rate, and all but the accepted verdict discard the key.
C7_RateTableOfCode ==
    (Classified /\ vq.kind = "rate") =>
        LET e == vq.errors * 64
            n == vq.sample_size
        IN /\ (e <= 16 * n) <=> (vres.verdict = "safe")
           /\ (16 * n < e /\ e <= 23 * n) <=> (vres.verdict = "significant")
           /\ (23 * n < e /\ e <= 32 * n) <=> (vres.verdict = "critical")
           /\ (32 * n < e) <=> (vres.verdict = "severe")
           /\ vres.discards <=> (e > 16 * n)

\* C7 witness: a rate strictly between 23/64 and 24/64 has been classified
\* (and so has been put in the critical bucket).
C7_Witness ==
    /\ Classified /\ vq.kind = "rate"
    /\ 23 * vq.sample_size < vq.errors * 64
    /\ vq.errors * 64 < 24 * vq.sample_size

(* ------------------------------------------------------------------ *)
(* keydes: the key-establishment loop (SpecRetry)                       *)
(* ------------------------------------------------------------------ *)
\* target_key_length of simulate_iot_cloud_communication.
TargetKeyLength == 64

\* What quantum_key_distribution(target_key_length) can return as shared_key:
\* one bit per trial with matching bases, out of 2 * target_key_length trials.
QkdSharedKeys ==
    {Ones(k, n) : k \in {0, 1}, n \in 0..(2 * TargetKeyLength)}

InitRetry ==
    /\ cache = FreshCache
    /\ IdleCacheClients
    /\ IdleVerdict
    /\ IdleServer
    /\ kpc = "qkd"
    /\ shared_key = <<>>

\* shared_key, _, _, _ = quantum_key_distribution(target_key_length)
KdDistribute ==
    /\ kpc = "qkd"
    /\ shared_key' \in QkdSharedKeys
    /\ kpc' = "check"
    /\ UNCHANGED <<cacheVars, verdictVars, serverVars>>

\* if len(shared_key) >= 64: break
KdBreak ==
    /\ kpc = "check"
    /\ Len(shared_key) >= 64
    /\ kpc' = "truncate"
    /\ UNCHANGED <<shared_key, cacheVars, verdictVars, serverVars>>

\* print("Retrying quantum key generation...") and the next turn of while True
KdRetry ==
    /\ kpc = "check"
    /\ ~(Len(shared_key) >= 64)
    /\ kpc' = "qkd"
    /\ UNCHANGED <<shared_key, cacheVars, verdictVars, serverVars>>

\* shared_key = shared_key[:64]
KdTruncate ==
    /\ kpc = "truncate"
    /\ shared_key' = SubSeq(shared_key, 1, 64)
    /\ kpc' = "established"
    /\ UNCHANGED <<cacheVars, verdictVars, serverVars>>

NextRetry == KdDistribute \/ KdBreak \/ KdRetry \/ KdTruncate

\* The interpreter keeps running the loop while it has a step to take.
SpecRetry == InitRetry /\ [][NextRetry]_vars /\ WF_vars(NextRetry)

\* C8: key regeneration is bounded: on every execution the loop ends, with a
\* key or with the ChannelUnstable condition surfaced to the caller.
C8_RetryLoopEnds == <>(kpc \in {"established", "unstable"})

(* ------------------------------------------------------------------ *)
(* Claims about ThreadSafeCache (SpecCache)                             *)
(* ------------------------------------------------------------------ *)
\* C1: get, set and clear are guarded by one lock for their full duration:
\* at no time are two client threads inside a critical section together.
C1_MutualExclusion ==
    \A t1, t2 \in CThreads :
        (t1 # t2) => ~(InCritical(t1) /\ InCritical(t2))

AllRolesNone(c) == \A r \in Roles : RoleOf(c, r) = PyNone

\* C4: clear() resets every role in one step: after the reset and until a set
\* stores again every role reads None, the step that resets leaves no role
\* behind, and no other step of clear() touches the dictionary.
C4_ClearResetsAllRoles ==
    /\ [](cleared => AllRolesNone(cache))
    /\ [][\A t \in CThreads :
            (ccall[t].op = "clear" /\ cpc'[t] # cpc[t]) =>
                IF cpc[t] = "body" THEN AllRolesNone(cache') ELSE cache' = cache]_vars

\* C4 witness: a clear() has returned after a key had been stored by a
\* completed set, and nothing has been stored since.
C4_Witness ==
    /\ cleared
    /\ \E t, u \in CThreads :
          /\ ccall[t].op = "clear" /\ cpc[t] = "idle"
          /\ ccall[u].op = "set" /\ ccall[u].value # PyNone /\ cpc[u] = "idle"

(* ------------------------------------------------------------------ *)
(* The request handlers (Spec, SpecSession)                             *)
(* ------------------------------------------------------------------ *)
\* Requests served by the concurrent server / issued by the single client.
MaxRequests == 3
MaxSessionRequests == 3

\* Number of positions where two bit lists agree: sum(a == b for a, b in zip(..)).
Matches(a, b) ==
    Cardinality({i \in 1..(IF Len(a) < Len(b) THEN Len(a) ELSE Len(b)) : a[i] = b[i]})

\* calculate_qber: the rate as numerator and denominator (0.0 is 0/1).
CalculateQber(key1, key2) ==
    IF Len(key1) = 0 \/ Len(key2) = 0 \/ Len(key1) # Len(key2)
    THEN [num |-> 0, den |-> 1]
    ELSE [num |-> Len(key1) - Matches(key1, key2), den |-> Len(key1)]

\* The values the random sources may deliver.  The single client explores a
\* wide range of them; the concurrent server a few.
\* [random.randint(0, 1) for _ in range(64)] of init_keys:
ClassicKeys ==
    IF serial THEN {Ones(0, KeyLen), Ones(KeyLen, KeyLen)} ELSE {Ones(0, KeyLen)}

\* A mutant of GenKeys: the measurement loop runs one time too few.
GenKeysShort == {Ones(0, KeyLen - 1), Ones(KeyLen - 1, KeyLen - 1)}

\* generate_quantum_key(): one measured bit per turn of range(length).
GenKeys ==
    IF serial THEN {Ones(0, KeyLen), Ones(24, KeyLen), Ones(KeyLen, KeyLen)}
    ELSE {Ones(0, KeyLen), Ones(KeyLen, KeyLen)}

\* eve_attempt_key = [random.randint(0, 1) for _ in range(64)] of eve_attack:
\* around every threshold of the quantum branch for the single client, a few
\* where the loop of the classic branch follows.
Guesses(wide) ==
    IF wide
    THEN {Ones(k, KeyLen) : k \in {0, 15, 16, 17, 23, 24, 31, 32, 33, 40, 41, 47, 48, 49, 64}}
    ELSE IF serial THEN {Ones(16, KeyLen), Ones(48, KeyLen)}
    ELSE {Ones(0, KeyLen), Ones(48, KeyLen)}

\* correct_bits = random.randint(32, 58)
CorrectBits == {32}

\* bit_pos = random.randint(0, 63)
BitPositions == {0, 63}

KeyTypes == {PyStr("classic"), PyStr("quantum"), PyStr("rsa")}

\* Message texts as code points: "", "hi", "12345678", "é", and a JSON
\* value that is no string.
Messages ==
    IF serial
    THEN {PyStr(<<>>), PyStr(<<104, 105>>), PyStr(<<49, 50, 51, 52, 53, 54, 55, 56>>),
          PyStr(<<233>>), PyList(<<1>>)}
    ELSE {PyStr(<<104, 105>>)}

\* encrypted_msg values: the ciphertext last returned, and texts that are no
\* ciphertext (bad base64 padding, not a whole block, a block of zero bytes).
Ciphertexts ==
    (IF sent.sealed THEN {PyStr(sent.ct)} ELSE {})
    \cup {PyStr(<<1, 2, 3>>)}
    \cup (IF serial
          THEN {PyStr(<<0, 0, 0, 0>>), PyStr(<<0, 0, 0, 0, 0, 0, 0, 0, 0, 0, 0, 64>>)}
          ELSE {})

\* request.json of the three POST endpoints: absent, a field missing, complete.
EncryptData ==
    {PyNone, PyDict(<<>>)}
    \cup {PyDict([message |-> m]) : m \in Messages}
    \cup {PyDict([key_type |-> k]) : k \in KeyTypes}
    \cup {PyDict([message |-> m, key_type |-> k]) : m \in Messages, k \in KeyTypes}

DecryptData ==
    {PyNone}
    \cup {PyDict([key_type |-> k]) : k \in KeyTypes}
    \cup {PyDict([encrypted_msg |-> c, key_type |-> k]) : c \in Ciphertexts, k \in KeyTypes}

EveData == {PyNone, PyDict(<<>>)} \cup {PyDict([key_type |-> k]) : k \in KeyTypes}

HasField(data, f) == data.tag = "dict" /\ f \in DOMAIN data.v

\* A worker may take up a request.
CanStart(t) ==
    /\ pc[t] = "idle"
    /\ nreq < (IF serial THEN MaxSessionRequests ELSE MaxRequests)
    /\ serial => t = "w1"

Begin(t, r) ==
    /\ req' = [req EXCEPT ![t] = r]
    /\ nreq' = nreq + 1

\* The handler returns response r; its futures go with its frame.
Finish(t, r) ==
    /\ pc' = [pc EXCEPT ![t] = "idle"]
    /\ resp' = [resp EXCEPT ![t] = r]
    /\ tasks' = [tasks EXCEPT ![t] = [k \in TaskNames |-> NoTask]]

\* A mutant of Error: every error is answered as an internal failure.
ErrorInternal(code, msg) == [code |-> 500, error |-> msg]

\* An error response: the JSON body {"error": ...} and the status code.
Error(code, msg) == [code |-> code, error |-> msg]

\* The eve slot stops being worker t's own list object.
Unalias(t) == IF eveAlias = t THEN "none" ELSE eveAlias

(* ---- QuantumCircuitPool and generate_quantum_key ---- *)
\* get_circuit: refill an empty pool, then pop the last circuit.
PoolAfterRefill == IF Len(pool) = 0 THEN [i \in 1..PoolSize |-> Circuit] ELSE pool

\* A mutant of PoolReturn: the circuit is dropped.
PoolReturnDrops(p, circuit) == p

\* A mutant of PoolReturn: the circuit is appended whatever the pool holds.
PoolReturnUnbounded(p, circuit) == Append(p, circuit)

\* return_circuit: append unless the pool is full.
PoolReturn(p, circuit) == IF Len(p) < PoolSize THEN Append(p, circuit) ELSE p

\* circuit = circuit_pool.get_circuit()
GenGet(t, k) ==
    /\ tasks[t][k].st = "get"
    /\ LET p == PoolAfterRefill
       IN /\ tasks' = [tasks EXCEPT ![t][k].st = "run", ![t][k].circuit = p[Len(p)]]
          /\ pool' = SubSeq(p, 1, Len(p) - 1)
          /\ ncirc' = IF Len(pool) = 0 THEN ncirc + PoolSize ELSE ncirc
    /\ UNCHANGED <<cache, serial, pc, req, loc, resp, eveAlias, nreq, sent, notServerVars>>

\* The measurement loop runs to its end, then circuit_pool.return_circuit(circuit).
GenFinish(t, k) ==
    /\ tasks[t][k].st = "run"
    /\ \E key \in GenKeys :
          tasks' = [tasks EXCEPT ![t][k].st = "done", ![t][k].key = key,
                                 ![t][k].returned = TRUE]
    /\ pool' = PoolReturn(pool, tasks[t][k].circuit)
    /\ UNCHANGED <<cache, serial, pc, req, loc, resp, ncirc, eveAlias, nreq, sent,
                   notServerVars>>

\* simulator.run(circuit).result() raises in some turn of the loop.
GenRaise(t, k) ==
    /\ tasks[t][k].st = "run"
    /\ tasks' = [tasks EXCEPT ![t][k].st = "raised"]
    /\ UNCHANGED <<cache, serial, pc, req, loc, resp, pool, ncirc, eveAlias, nreq, sent,
                   notServerVars>>

Submitted == [NoTask EXCEPT !.st = "get"]
Finished(task) == task.st \in {"done", "raised"}

(* ---- init_keys ---- *)
\* request.method == "OPTIONS": the preflight response.
IkPreflight(t) ==
    /\ CanStart(t)
    /\ Begin(t, [op |-> "init_keys", method |-> "OPTIONS"])
    /\ Finish(t, [code |-> 200, preflight |-> TRUE])
    /\ loc' = [loc EXCEPT ![t] = EmptyLoc]
    /\ UNCHANGED <<cache, serial, pool, ncirc, eveAlias, sent, notServerVars>>

\* The three generations are submitted to the executor.
IkStart(t) ==
    /\ CanStart(t)
    /\ Begin(t, [op |-> "init_keys", method |-> "POST"])
    /\ \E ck \in ClassicKeys : loc' = [loc EXCEPT ![t] = [EmptyLoc EXCEPT !.classic_key = ck]]
    /\ tasks' = [tasks EXCEPT ![t] = [k \in TaskNames |-> Submitted]]
    /\ pc' = [pc EXCEPT ![t] = "ik_wait"]
    /\ resp' = [resp EXCEPT ![t] = NoResp]
    /\ UNCHANGED <<cache, serial, pool, ncirc, eveAlias, sent, notServerVars>>

\* A future's result() re-raises once the executor has shut down: 500.
IkFail(t) ==
    /\ pc[t] = "ik_wait"
    /\ \A k \in TaskNames : Finished(tasks[t][k])
    /\ \E k \in TaskNames : tasks[t][k].st = "raised"
    /\ Finish(t, Error(500, "generation failed"))
    /\ UNCHANGED <<cache, serial, req, loc, pool, ncirc, eveAlias, nreq, sent,
                   notServerVars>>

\* A mutant of IkSetClassic: the first write does not wait for a generation
\* that raised.
IkSetClassicEarly(t) ==
    /\ pc[t] = "ik_wait"
    /\ \A k \in TaskNames : Finished(tasks[t][k])
    /\ loc' = [loc EXCEPT ![t].quantum_key = tasks[t]["q"].key,
                          ![t].eve_bits = tasks[t]["e"].key]
    /\ cache' = CacheSet(cache, "keys", PyStr("classic"), PyList(loc[t].classic_key))
    /\ pc' = [pc EXCEPT ![t] = "ik_set_quantum"]
    /\ UNCHANGED <<serial, req, resp, tasks, pool, ncirc, eveAlias, nreq, sent,
                   notServerVars>>

\* All results are in: the locals quantum_key and eve_bits, qber, then
\* cache.set("keys", "classic", classic_key).
IkSetClassic(t) ==
    /\ pc[t] = "ik_wait"
    /\ \A k \in TaskNames : tasks[t][k].st = "done"
    /\ loc' = [loc EXCEPT ![t].quantum_key = tasks[t]["q"].key,
                          ![t].eve_bits = tasks[t]["e"].key]
    /\ cache' = CacheSet(cache, "keys", PyStr("classic"), PyList(loc[t].classic_key))
    /\ pc' = [pc EXCEPT ![t] = "ik_set_quantum"]
    /\ UNCHANGED <<serial, req, resp, tasks, pool, ncirc, eveAlias, nreq, sent,
                   notServerVars>>

\* cache.set("keys", "quantum", quantum_key)
IkSetQuantum(t) ==
    /\ pc[t] = "ik_set_quantum"
    /\ cache' = CacheSet(cache, "keys", PyStr("quantum"), PyList(loc[t].quantum_key))
    /\ pc' = [pc EXCEPT ![t] = "ik_set_eve"]
    /\ UNCHANGED <<serial, req, loc, resp, tasks, pool, ncirc, eveAlias, nreq, sent,
                   notServerVars>>

\* cache.set("keys", "eve", eve_bits) and the response.
IkSetEve(t) ==
    /\ pc[t] = "ik_set_eve"
    /\ cache' = CacheSet(cache, "keys", PyStr("eve"), PyList(loc[t].eve_bits))
    /\ eveAlias' = "none"
    /\ Finish(t, [code |-> 200,
                  classic_key |-> loc[t].classic_key,
                  quantum_key |-> loc[t].quantum_key,
                  qber |-> CalculateQber(loc[t].quantum_key, loc[t].eve_bits)])
    /\ UNCHANGED <<serial, req, loc, pool, ncirc, nreq, sent, notServerVars>>

(* ---- encrypt / decrypt ---- *)
First16(bits) == SubSeq(bits, 1, IF Len(bits) < 16 THEN Len(bits) ELSE 16)

ValidKeyType(k) == k \in {PyStr("classic"), PyStr("quantum")}

\* What encrypt answers to request.json = data on the cache as it is.
EncryptResponse(data) ==
    IF ~Truthy(data) \/ ~HasField(data, "message") \/ ~HasField(data, "key_type")
    THEN Error(400, "Missing required parameters")
    ELSE IF ~ValidKeyType(data.v["key_type"])
    THEN Error(400, "Invalid key type")
    ELSE LET current_key == CacheGet(cache, "keys", data.v["key_type"])
         IN IF ~Truthy(current_key)
            THEN Error(400, "No key initialized")
            ELSE LET encrypted_msg == DesEncrypt(current_key.v, data.v["message"])
                 IN IF encrypted_msg = Raised
                    THEN Error(500, "exception")
                    ELSE [code |-> 200, encrypted_msg |-> encrypted_msg,
                          key_used |-> First16(current_key.v)]

\* The key a well-formed encrypt/decrypt/eve_attack request reads first.
KeyRead(data) ==
    IF Truthy(data) /\ HasField(data, "key_type") /\ ValidKeyType(data.v["key_type"])
    THEN CacheGet(cache, "keys", data.v["key_type"])
    ELSE PyNone

Encrypt(t) ==
    /\ CanStart(t)
    /\ \E data \in EncryptData :
          LET r == EncryptResponse(data)
          IN /\ Begin(t, [op |-> "encrypt", data |-> data])
             /\ Finish(t, r)
             /\ loc' = [loc EXCEPT ![t] =
                          [EmptyLoc EXCEPT !.current_key =
                              IF HasField(data, "message") THEN KeyRead(data) ELSE PyNone]]
             /\ sent' = IF r.code = 200
                        THEN [sealed |-> TRUE, ct |-> r.encrypted_msg,
                              message |-> data.v["message"],
                              key_type |-> data.v["key_type"],
                              key |-> KeyRead(data)]
                        ELSE sent
    /\ UNCHANGED <<cache, serial, pool, ncirc, eveAlias, notServerVars>>

\* What decrypt answers to request.json = data on the cache as it is.
DecryptResponse(data) ==
    IF ~Truthy(data) \/ ~HasField(data, "encrypted_msg") \/ ~HasField(data, "key_type")
    THEN Error(400, "Missing required parameters")
    ELSE IF ~ValidKeyType(data.v["key_type"])
    THEN Error(400, "Invalid key type")
    ELSE LET current_key == CacheGet(cache, "keys", data.v["key_type"])
         IN IF ~Truthy(current_key)
            THEN Error(400, "No key initialized")
            ELSE LET decrypted_msg == DesDecrypt(current_key.v, data.v["encrypted_msg"])
                 IN IF decrypted_msg = Raised
                    THEN Error(500, "exception")
                    ELSE [code |-> 200, decrypted_msg |-> decrypted_msg]

Decrypt(t) ==
    /\ CanStart(t)
    /\ \E data \in DecryptData :
          /\ Begin(t, [op |-> "decrypt", data |-> data])
          /\ Finish(t, DecryptResponse(data))
          /\ loc' = [loc EXCEPT ![t] =
                       [EmptyLoc EXCEPT
                          !.current_key =
                              IF HasField(data, "encrypted_msg") THEN KeyRead(data) ELSE PyNone,
                          !.src =
                              IF sent.sealed /\ HasField(data, "encrypted_msg")
                                 /\ data.v["encrypted_msg"] = PyStr(sent.ct)
                              THEN sent ELSE NoSent]]
    /\ UNCHANGED <<cache, serial, pool, ncirc, eveAlias, sent, notServerVars>>

(* ---- eve_attack ---- *)
\* Validation of the request, then current_key = cache.get("keys", key_type).
EaStart(t) ==
    /\ CanStart(t)
    /\ \E data \in EveData :
          /\ Begin(t, [op |-> "eve_attack", data |-> data])
          /\ IF ~Truthy(data) \/ ~HasField(data, "key_type")
             THEN Finish(t, Error(400, "Missing required parameters"))
                  /\ loc' = [loc EXCEPT ![t] = EmptyLoc]
             ELSE IF ~ValidKeyType(data.v["key_type"])
             THEN Finish(t, Error(400, "Invalid key type"))
                  /\ loc' = [loc EXCEPT ![t] = EmptyLoc]
             ELSE /\ pc' = [pc EXCEPT ![t] = "ea_get_eve"]
                  /\ tasks' = tasks
                  /\ resp' = [resp EXCEPT ![t] = NoResp]
                  /\ loc' = [loc EXCEPT ![t] = [EmptyLoc EXCEPT !.current_key = KeyRead(data)]]
    /\ UNCHANGED <<cache, serial, pool, ncirc, eveAlias, sent, notServerVars>>

IsClassic(t) == req[t].data.v["key_type"] = PyStr("classic")

\* eve_key = cache.get("keys", "eve"); 400 unless both keys are there.
EaNoKeys(t) ==
    /\ pc[t] = "ea_get_eve"
    /\ ~Truthy(loc[t].current_key) \/ ~Truthy(RoleOf(cache, "eve"))
    /\ loc' = [loc EXCEPT ![t].eve_key = RoleOf(cache, "eve")]
    /\ Finish(t, Error(400, "Keys not initialized"))
    /\ UNCHANGED <<cache, serial, req, pool, ncirc, eveAlias, nreq, sent,
                   notServerVars>>

\* ... otherwise Eve's attempt is drawn (a new list object).
EaGuess(t) ==
    /\ pc[t] = "ea_get_eve"
    /\ Truthy(loc[t].current_key) /\ Truthy(RoleOf(cache, "eve"))
    /\ \E guess \in Guesses(serial /\ ~IsClassic(t)) :
          loc' = [loc EXCEPT ![t].eve_key = RoleOf(cache, "eve"),
                             ![t].eve_attempt_key = guess]
    /\ pc' = [pc EXCEPT ![t] = "ea_set_guess"]
    /\ UNCHANGED <<cache, serial, req, resp, tasks, pool, ncirc, eveAlias, nreq, sent,
                   notServerVars>>

\* classic: cache.set("keys", "eve", eve_attempt_key); correct_bits is drawn.
EaSetGuessClassic(t) ==
    /\ pc[t] = "ea_set_guess"
    /\ IsClassic(t)
    /\ cache' = CacheSet(cache, "keys", PyStr("eve"), PyList(loc[t].eve_attempt_key))
    /\ eveAlias' = t
    /\ \E cb \in CorrectBits : loc' = [loc EXCEPT ![t].correct_bits = cb, ![t].i = 0]
    /\ pc' = [pc EXCEPT ![t] = "ea_loop"]
    /\ UNCHANGED <<serial, req, resp, tasks, pool, ncirc, nreq, sent, notServerVars>>

\* One turn of the loop: eve_attempt_key[bit_pos] = current_key[bit_pos].  The
\* list is changed in place: while it is the object in the eve slot, what the
\* cache holds changes with it.
EaLoopStep(t) ==
    /\ pc[t] = "ea_loop"
    /\ loc[t].i < loc[t].correct_bits
    /\ \E bit_pos \in BitPositions :
          LET changed == [loc[t].eve_attempt_key EXCEPT
                             ![bit_pos + 1] = loc[t].current_key.v[bit_pos + 1]]
          IN /\ loc' = [loc EXCEPT ![t].eve_attempt_key = changed, ![t].i = loc[t].i + 1]
             /\ cache' = IF eveAlias = t
                         THEN [cache EXCEPT !["keys"].v["eve"] = PyList(changed)]
                         ELSE cache
    /\ UNCHANGED <<serial, pc, req, resp, tasks, pool, ncirc, eveAlias, nreq, sent,
                   notServerVars>>

\* A mutant of EveResponse: no first bits of Eve's key in the response.
EveResponseBare(status, log, matches, eve_key) ==
    [code |-> 200, status |-> status, log |-> log, matches |-> matches]

\* A mutant of EveResponse: a safe detection reported as plain "detected".
EveResponseDetected(status, log, matches, eve_key) ==
    [code |-> 200,
     status |-> IF status = "detected_safe" THEN "detected" ELSE status,
     log |-> log, matches |-> matches, eve_key |-> First16(eve_key)]

\* The JSON of a successful eve_attack (log_msg as its kind and its count).
EveResponse(status, log, matches, eve_key) ==
    [code |-> 200, status |-> status, log |-> log, matches |-> matches,
     eve_key |-> First16(eve_key)]

\* A mutant of EaCracked: 48 matching bits already count as a crack.
EaCrackedAt48(t) ==
    /\ pc[t] = "ea_loop"
    /\ loc[t].i = loc[t].correct_bits
    /\ LET matches == Matches(loc[t].current_key.v, loc[t].eve_attempt_key)
       IN /\ matches >= 48
          /\ Finish(t, EveResponse("cracked", "cracked", matches, loc[t].current_key.v))
    /\ cache' = CacheSet(cache, "keys", PyStr("eve"), loc[t].current_key)
    /\ eveAlias' = "none"
    /\ UNCHANGED <<serial, req, loc, pool, ncirc, nreq, sent, notServerVars>>

\* After the loop: more than 48 matching bits, Eve gets the full key.
EaCracked(t) ==
    /\ pc[t] = "ea_loop"
    /\ loc[t].i = loc[t].correct_bits
    /\ LET matches == Matches(loc[t].current_key.v, loc[t].eve_attempt_key)
       IN /\ matches > 48
          /\ Finish(t, EveResponse("cracked", "cracked", matches, loc[t].current_key.v))
    /\ cache' = CacheSet(cache, "keys", PyStr("eve"), loc[t].current_key)
    /\ eveAlias' = "none"
    /\ UNCHANGED <<serial, req, loc, pool, ncirc, nreq, sent, notServerVars>>

\* A mutant of EaProgress: the guess is stored as the classic key.
EaProgressStoresGuess(t) ==
    /\ pc[t] = "ea_loop"
    /\ loc[t].i = loc[t].correct_bits
    /\ LET matches == Matches(loc[t].current_key.v, loc[t].eve_attempt_key)
       IN /\ ~(matches > 48)
          /\ Finish(t, EveResponse("progress", "progress", matches, loc[t].eve_attempt_key))
    /\ cache' = CacheSet(cache, "keys", PyStr("classic"), PyList(loc[t].eve_attempt_key))
    /\ eveAlias' = Unalias(t)
    /\ UNCHANGED <<serial, req, loc, pool, ncirc, nreq, sent, notServerVars>>

\* ... at most 48: the attempt is reported.
EaProgress(t) ==
    /\ pc[t] = "ea_loop"
    /\ loc[t].i = loc[t].correct_bits
    /\ LET matches == Matches(loc[t].current_key.v, loc[t].eve_attempt_key)
       IN /\ ~(matches > 48)
          /\ Finish(t, EveResponse("progress", "progress", matches, loc[t].eve_attempt_key))
    /\ eveAlias' = Unalias(t)
    /\ UNCHANGED <<cache, serial, req, loc, pool, ncirc, nreq, sent, notServerVars>>

\* quantum: cache.set("keys", "eve", eve_attempt_key); at most 16 matches.
EaSetGuessSafe(t) ==
    /\ pc[t] = "ea_set_guess"
    /\ ~IsClassic(t)
    /\ cache' = CacheSet(cache, "keys", PyStr("eve"), PyList(loc[t].eve_attempt_key))
    /\ eveAlias' = "none"
    /\ LET matches == Matches(loc[t].current_key.v, loc[t].eve_attempt_key)
       IN /\ EveBucket(matches) = "safe"
          /\ Finish(t, EveResponse("detected_safe", "safe", matches, loc[t].eve_attempt_key))
    /\ UNCHANGED <<serial, req, loc, pool, ncirc, nreq, sent, notServerVars>>

\* ... more than 16: new_quantum_key = generate_quantum_key() is entered.
EaSetGuessRegen(t) ==
    /\ pc[t] = "ea_set_guess"
    /\ ~IsClassic(t)
    /\ cache' = CacheSet(cache, "keys", PyStr("eve"), PyList(loc[t].eve_attempt_key))
    /\ eveAlias' = t
    /\ EveBucket(Matches(loc[t].current_key.v, loc[t].eve_attempt_key)) # "safe"
    /\ tasks' = [tasks EXCEPT ![t]["q"] = Submitted]
    /\ pc' = [pc EXCEPT ![t] = "ea_regen"]
    /\ UNCHANGED <<serial, req, loc, resp, pool, ncirc, nreq, sent, notServerVars>>

\* A mutant of EaRegenDone: the new key is reported but not stored.
EaRegenDoneKeepsKey(t) ==
    /\ pc[t] = "ea_regen"
    /\ tasks[t]["q"].st = "done"
    /\ eveAlias' = Unalias(t)
    /\ LET matches == Matches(loc[t].current_key.v, loc[t].eve_attempt_key)
       IN Finish(t, EveResponse("detected_reinit", EveBucket(matches), matches,
                                loc[t].eve_attempt_key)
                    @@ [new_quantum_key |-> tasks[t]["q"].key])
    /\ UNCHANGED <<cache, serial, req, loc, pool, ncirc, nreq, sent, notServerVars>>

\* cache.set("keys", "quantum", new_quantum_key) and the response.
EaRegenDone(t) ==
    /\ pc[t] = "ea_regen"
    /\ tasks[t]["q"].st = "done"
    /\ cache' = CacheSet(cache, "keys", PyStr("quantum"), PyList(tasks[t]["q"].key))
    /\ eveAlias' = Unalias(t)
    /\ LET matches == Matches(loc[t].current_key.v, loc[t].eve_attempt_key)
       IN Finish(t, EveResponse("detected_reinit", EveBucket(matches), matches,
                                loc[t].eve_attempt_key)
                    @@ [new_quantum_key |-> tasks[t]["q"].key])
    /\ UNCHANGED <<serial, req, loc, pool, ncirc, nreq, sent, notServerVars>>

\* A mutant of EaRegenFail: the failed regeneration leaves no quantum key.
EaRegenFailDropsKey(t) ==
    /\ pc[t] = "ea_regen"
    /\ tasks[t]["q"].st = "raised"
    /\ cache' = [cache EXCEPT !["keys"].v["quantum"] = PyNone]
    /\ eveAlias' = Unalias(t)
    /\ Finish(t, Error(500, "exception"))
    /\ UNCHANGED <<serial, req, loc, pool, ncirc, nreq, sent, notServerVars>>

\* generate_quantum_key raised: the handler's except answers 500.
EaRegenFail(t) ==
    /\ pc[t] = "ea_regen"
    /\ tasks[t]["q"].st = "raised"
    /\ eveAlias' = Unalias(t)
    /\ Finish(t, Error(500, "exception"))
    /\ UNCHANGED <<cache, serial, req, loc, pool, ncirc, nreq, sent, notServerVars>>

Next ==
    \E t \in Workers :
        \/ IkPreflight(t)
        \/ IkStart(t)
        \/ IkFail(t)
        \/ IkSetClassic(t)
        \/ IkSetQuantum(t)
        \/ IkSetEve(t)
        \/ Encrypt(t)
        \/ Decrypt(t)
        \/ EaStart(t)
        \/ EaNoKeys(t)
        \/ EaGuess(t)
        \/ EaSetGuessClassic(t)
        \/ EaLoopStep(t)
        \/ EaCracked(t)
        \/ EaProgress(t)
        \/ EaSetGuessSafe(t)
        \/ EaSetGuessRegen(t)
        \/ EaRegenDone(t)
        \/ EaRegenFail(t)
        \/ \E k \in TaskNames : GenGet(t, k) \/ GenFinish(t, k) \/ GenRaise(t, k)

\* The server as constructed: an empty cache, a full pool, no request yet.
ServerInit ==
    /\ cache = FreshCache
    /\ IdleCacheClients
    /\ IdleVerdict
    /\ IdleRetry
    /\ ServerStart

Init == ServerInit /\ serial = FALSE

InitSession == ServerInit /\ serial = TRUE

\* The server under concurrent requests.
Spec == Init /\ [][Next]_vars

\* The server under one client that waits for each response.
SpecSession == InitSession /\ [][Next]_vars

(* ------------------------------------------------------------------ *)
(* Properties of the request handlers                                   *)
(* ------------------------------------------------------------------ *)
IsKey(x) == x.tag = "list" /\ Len(x.v) = KeyLen /\ \A i \in 1..KeyLen : x.v[i] \in {0, 1}

\* C2: in every reachable state of the server under interleaved init_keys,
\* encrypt, decrypt and eve_attack requests, each cached role (classic,
\* quantum, eve) is None or a list of exactly 64 bits.
C2_RolesNoneOr64Bits ==
    \A role \in Roles : RoleOf(cache, role) = PyNone \/ IsKey(RoleOf(cache, role))

\* C2 witness: all three roles hold a key, and an eve_attack has answered
\* after writing its own values over what init_keys stored.
C2_Witness ==
    /\ \A role \in Roles : IsKey(RoleOf(cache, role))
    /\ \E t \in Workers :
          pc[t] = "idle" /\ req[t].op = "eve_attack" /\ resp[t].code = 200

\* Every list a handler passes to cache.set as it is at the call.
StoredKeys == ClassicKeys \cup GenKeys \cup Guesses(TRUE) \cup Guesses(FALSE)

\* C3: a list is not modified once it is stored: whatever a reader gets from
\* cache.get("keys", "eve") is None or a list as it was when it was passed to
\* cache.set; in particular never Eve's guess with some positions overwritten.
C3_ReaderSeesStoredLists ==
    \A t \in Workers :
        loc[t].eve_key = PyNone \/ \E k \in StoredKeys : loc[t].eve_key = PyList(k)

\* The eve_attack request of worker t passed validation and has answered.
EveAnswered(t, key_type) ==
    /\ pc[t] = "idle"
    /\ req[t].op = "eve_attack"
    /\ resp[t].code \in {200, 500}
    /\ req[t].data.v["key_type"] = PyStr(key_type)

\* C5: eve_attack with key_type quantum, matches = agreeing positions of the
\* guess and the cached quantum key.  matches <= 16: status detected_safe, no
\* new key in the response, cached quantum key unchanged.  matches >= 17:
\* status detected_reinit with a generated 64-bit new_quantum_key that is now
\* the cached quantum key -- or, when the generation raised, the 500 answer
\* of the request boundary with the cached quantum key unchanged.
C5_QuantumVerdicts ==
    \A t \in Workers :
        EveAnswered(t, "quantum") =>
            LET matches == Matches(loc[t].current_key.v, loc[t].eve_attempt_key)
            IN IF matches <= 16
               THEN /\ resp[t].code = 200
                    /\ resp[t].status = "detected_safe"
                    /\ "new_quantum_key" \notin DOMAIN resp[t]
                    /\ RoleOf(cache, "quantum") = loc[t].current_key
               ELSE IF resp[t].code = 500
               THEN RoleOf(cache, "quantum") = loc[t].current_key
               ELSE /\ resp[t].status = "detected_reinit"
                    /\ "new_quantum_key" \in DOMAIN resp[t]
                    /\ IsKey(PyList(resp[t].new_quantum_key))
                    /\ RoleOf(cache, "quantum") = PyList(resp[t].new_quantum_key)

\* C5 witness: 24 or more matches answered with detected_reinit and a new
\* key that differs from the one it replaced.
C5_Witness ==
    \E t \in Workers :
        /\ EveAnswered(t, "quantum")
        /\ resp[t].code = 200
        /\ Matches(loc[t].current_key.v, loc[t].eve_attempt_key) >= 24
        /\ resp[t].status = "detected_reinit"
        /\ PyList(resp[t].new_quantum_key) # loc[t].current_key

\* C9: every exit path of generate_quantum_key returns the circuit it took
\* from the pool: a generation that has ended, by return or by raise, has
\* called return_circuit.
C9_CircuitReturnedOnExit ==
    \A t \in Workers : \A k \in TaskNames :
        Finished(tasks[t][k]) => tasks[t][k].returned

\* The decrypt request of worker t was given the ciphertext of the last
\* successful encrypt, names the same key_type, and found the key that
\* encrypt had used.
DecryptsOwnCiphertext(t) ==
    /\ pc[t] = "idle"
    /\ req[t].op = "decrypt"
    /\ loc[t].src.sealed
    /\ req[t].data.v["key_type"] = loc[t].src.key_type
    /\ loc[t].current_key = loc[t].src.key

\* C10: after init_keys, decrypt of the ciphertext that encrypt returned,
\* with the same key_type and the cached key of that type not replaced in
\* between, answers 200 with the message that was encrypted.
C10_SessionRoundTrip ==
    \A t \in Workers :
        DecryptsOwnCiphertext(t) =>
            /\ resp[t].code = 200
            /\ PyStr(resp[t].decrypted_msg) = loc[t].src.message

\* C10 witness: a message of exactly one block (so a whole block of padding)
\* came back from decrypt under the quantum key.
C10_Witness ==
    \E t \in Workers :
        /\ DecryptsOwnCiphertext(t)
        /\ loc[t].src.key_type = PyStr("quantum")
        /\ Len(loc[t].src.message.v) = 8
        /\ resp[t].code = 200
        /\ PyStr(resp[t].decrypted_msg) = loc[t].src.message

(* ------------------------------------------------------------------ *)
(* The helper functions called on their own (SpecHelpers)               *)
(* ------------------------------------------------------------------ *)
\* One call of a helper is examined at a time: vq is the call and its
\* arguments, vres what it returned or that it raised.
Pending == [verdict |-> "pending"]
Returned(value) == [verdict |-> "returned", value |-> value]
RaisedError(error) == [verdict |-> "raised", error |-> error]

\* All bit lists of length n.
Bits(n) == [1..n -> {0, 1}]

\* The bit list with every bit flipped.
Complement(bits) == [i \in 1..Len(bits) |-> 1 - bits[i]]

Abs(x) == IF x < 0 THEN -x ELSE x
Min(a, b) == IF a < b THEN a ELSE b
Max(a, b) == IF a < b THEN b ELSE a

(* ---- quantumkey.verify_bell_inequality ---- *)
\* Trials handed to verify_bell_inequality.
MaxTrials == 2

\* Basis values: the two measurement bases and a value that is neither.
BasisValues == {0, 1, 2}

\* The trials the for loop counts: (ba, bb) is one of the four combinations.
Qualifies(ba, bb) == ba \in {0, 1} /\ bb \in {0, 1}

\* correlations and count after the first n turns of the for loop.
RECURSIVE SumTrials(_, _, _, _, _)
SumTrials(n, a, b, ba, bb) ==
    IF n = 0 THEN [correlations |-> 0, count |-> 0]
    ELSE LET rest == SumTrials(n - 1, a, b, ba, bb)
         IN IF Qualifies(ba[n], bb[n])
            THEN [correlations |-> rest.correlations + (IF a[n] = b[n] THEN 1 ELSE -1),
                  count |-> rest.count + 1]
            ELSE rest

\* verify_bell_inequality: chsh_value = abs(2 * correlations / count) > 2.5,
\* compared exactly as 2 * |2 * correlations| > 5 * count.
VerifyBellInequality(alice_bits, bob_bits, alice_bases, bob_bases) ==
    LET n == Min(Min(Len(alice_bits), Len(bob_bits)), Min(Len(alice_bases), Len(bob_bases)))
        s == SumTrials(n, alice_bits, bob_bits, alice_bases, bob_bases)
    IN IF s.count = 0 THEN FALSE
       ELSE 2 * Abs(2 * s.correlations) > 5 * s.count

BellCalls ==
    UNION {[fn : {"verify_bell_inequality"}, alice_bits : Bits(n), bob_bits : Bits(n),
            alice_bases : [1..n -> BasisValues], bob_bases : [1..n -> BasisValues]] :
           n \in 0..MaxTrials}

CallVerifyBell ==
    /\ vq.fn = "verify_bell_inequality"
    /\ vres = Pending
    /\ vres' = Returned(VerifyBellInequality(vq.alice_bits, vq.bob_bits,
                                             vq.alice_bases, vq.bob_bases))
    /\ UNCHANGED <<vq, cacheVars, retryVars, serverVars>>

(* ---- calculate_qber and quantumkey.estimate_error_rate ---- *)
\* Longest bit list handed to the error-rate functions.
MaxBits == 9

\* The elements of a finite set of integers in ascending order.
RECURSIVE Ascending(_)
Ascending(S) ==
    IF S = {} THEN <<>>
    ELSE LET least == CHOOSE x \in S : \A y \in S : x <= y
         IN <<least>> \o Ascending(S \ {least})

\* CPython's set of small non-negative ints: in a table of 8 slots an element
\* goes to slot (hash mod 8), and on a collision to slot (5 * i + 1) mod 8 of
\* the slot i just tried.
RECURSIVE Probe(_, _)
Probe(i, occupied) == IF i \in occupied THEN Probe((i * 5 + 1) % 8, occupied) ELSE i

\* The table (slot -> element) after adding the first m elements of keep.
RECURSIVE TableOf(_, _)
TableOf(keep, m) ==
    IF m = 0 THEN <<>>
    ELSE LET table == TableOf(keep, m - 1)
         IN (Probe(keep[m] % 8, DOMAIN table) :> keep[m]) @@ table

\* list(set(range(n)) - set(sample_indices)) as CPython builds it for n <= 32:
\* the difference is filled in ascending order; from the fifth element on the
\* table has 32 slots or more and the list is ascending, below that it has 8
\* slots and the list follows the slots.
KeepIndices(n, sample) ==
    LET keep == Ascending((0..(n - 1)) \ sample)
    IN IF sample = {} \/ Len(keep) >= 5 THEN keep
       ELSE LET table == TableOf(keep, Len(keep))
                slots == Ascending(DOMAIN table)
            IN [j \in 1..Len(slots) |-> table[slots[j]]]

\* The sample size used: `if not sample_size: sample_size = min(len(bits1) // 4, 100)`.
SampleSize(bits1, sample_size) ==
    IF ~Truthy(sample_size) THEN Min(Len(bits1) \div 4, 100) ELSE sample_size.v

\* bits[i] for a Python index i >= 0.
Item(bits, i) == bits[i + 1]

\* estimate_error_rate(bits1, bits2, sample_size) when np.random.choice draws
\* the index set sample (of SampleSize elements).
EstimateErrorRate(bits1, bits2, sample_size, sample) ==
    LET size == SampleSize(bits1, sample_size)
        errors == Cardinality({i \in sample : Item(bits1, i) # Item(bits2, i)})
        keep_indices == KeepIndices(Len(bits1), sample)
    IN IF \E i \in sample : i >= Len(bits2) THEN RaisedError("IndexError")
       ELSE IF size = 0 THEN RaisedError("ZeroDivisionError")
       ELSE IF \E j \in 1..Len(keep_indices) : keep_indices[j] >= Len(bits2)
       THEN RaisedError("IndexError")
       ELSE Returned([error_rate |-> [num |-> errors, den |-> size],
                      remaining_bits1 |->
                          [j \in 1..Len(keep_indices) |-> Item(bits1, keep_indices[j])],
                      remaining_bits2 |->
                          [j \in 1..Len(keep_indices) |-> Item(bits2, keep_indices[j])],
                      sample_indices |-> sample])

\* Pairs of bit lists: equal, complementary, and of different lengths.
BitPairs ==
    UNION {{<<Ones(k, n), Ones(k, n)>>, <<Ones(k, n), Complement(Ones(k, n))>>,
            <<Ones(k, n), Ones(0, n \div 2)>>, <<Ones(k, n), Ones(0, n + 1)>>} :
           k \in {0, 1, MaxBits - 1}, n \in 0..MaxBits}

QberCalls == {[fn |-> "calculate_qber", bits1 |-> p[1], bits2 |-> p[2]] : p \in BitPairs}

EstimateCalls ==
    UNION {{[fn |-> "estimate_error_rate", bits1 |-> p[1], bits2 |-> p[2],
             sample_size |-> z] : z \in {PyNone} \cup {PyInt(k) : k \in 0..Len(p[1])}} :
           p \in BitPairs}

CallCalculateQber ==
    /\ vq.fn = "calculate_qber"
    /\ vres = Pending
    /\ vres' = Returned([error_rate |-> CalculateQber(vq.bits1, vq.bits2)])
    /\ UNCHANGED <<vq, cacheVars, retryVars, serverVars>>

\* np.random.choice(len(bits1), sample_size, replace=False) draws any set of
\* sample_size indices below len(bits1).
CallEstimateErrorRate ==
    /\ vq.fn = "estimate_error_rate"
    /\ vres = Pending
    /\ \E sample \in SUBSET (0..(Len(vq.bits1) - 1)) :
          /\ Cardinality(sample) = SampleSize(vq.bits1, vq.sample_size)
          /\ vres' = EstimateErrorRate(vq.bits1, vq.bits2, vq.sample_size, sample)
    /\ UNCHANGED <<vq, cacheVars, retryVars, serverVars>>

(* ---- quantumkey.privacy_amplification ---- *)
\* Bit lists up to this length are all handed to privacy_amplification.
MaxPackBits == 3

\* Bits of a SHA-256 digest.
DigestBits == 256

\* Value of the bits first..last of a list read as a binary number, the
\* first bit being the most significant.
RECURSIVE BinaryValue(_, _, _)
BinaryValue(bits, first, last) ==
    IF last < first THEN 0
    ELSE 2 * BinaryValue(bits, first, last - 1) + bits[last]

\* sum(bit << i for i, bit in enumerate(key_bits[i:i+8][::-1])) for each
\* i in range(0, len(key_bits), 8): one byte per group of up to 8 bits, the
\* last bit of the group being the least significant.
PackBits(key_bits) ==
    [g \in 1..((Len(key_bits) + 7) \div 8) |->
        BinaryValue(key_bits, 8 * (g - 1) + 1, Min(8 * g, Len(key_bits)))]

RECURSIVE SumBytes(_, _)
SumBytes(data, n) == IF n = 0 THEN 0 ELSE SumBytes(data, n - 1) + n * data[n]

\* hashlib.sha256(data).digest(): 32 bytes that depend on the data.  The hash
\* is the library's; a checksum stands in for it.
Sha256(data) ==
    [j \in 1..(DigestBits \div 8) |-> (31 * Len(data) + j * (SumBytes(data, Len(data)) + 7)) % 256]

\* The bits of format(byte, '08b') for every byte in turn.
BytesToBits(data) ==
    [i \in 1..(8 * Len(data)) |->
        (data[((i - 1) \div 8) + 1] \div (2 ^ (7 - ((i - 1) % 8)))) % 2]

\* privacy_amplification(key_bits, final_length); key_bytes is its local.
PrivacyAmplification(key_bits, final_length) ==
    LET length == IF ~Truthy(final_length) THEN Max(Len(key_bits) \div 2, 8)
                  ELSE final_length.v
        key_bytes == PackBits(key_bits)
        amplified_key == BytesToBits(Sha256(key_bytes))
    IN [amplified_key |-> SubSeq(amplified_key, 1, Min(length, Len(amplified_key))),
        key_bytes |-> key_bytes]

AmplifyKeys ==
    UNION {Bits(n) : n \in 0..MaxPackBits}
    \cup UNION {{Ones(k, n), Complement(Ones(k, n))} :
                k \in {1, 7}, n \in {7, 8, 9, 16, 17, 512, 514}}

AmplifyCalls ==
    [fn : {"privacy_amplification"}, key_bits : AmplifyKeys,
     final_length : {PyNone} \cup {PyInt(k) : k \in {0, 1, 8, 255, 256, 257}}]

CallPrivacyAmplification ==
    /\ vq.fn = "privacy_amplification"
    /\ vres = Pending
    /\ vres' = Returned(PrivacyAmplification(vq.key_bits, vq.final_length))
    /\ UNCHANGED <<vq, cacheVars, retryVars, serverVars>>

(* ---- cipher-key derivation of the two DES adapters ---- *)
\* keydes.QuantumDES._bits_to_bytes: ValueError below 64 bits, else 8 bytes
\* from the first 64 bits.
BitsToBytes(bits) ==
    IF Len(bits) < 64 THEN RaisedError("ValueError")
    ELSE Returned([b \in 1..8 |-> PackByte(bits, 8 * (b - 1) + 1, 0, 0)])

DeriveKeyCalls ==
    UNION {[fn : {"derive_key"}, adapter : {"OptimizedQuantumDES", "QuantumDES"},
            key_bits : {Ones(k, n), Complement(Ones(k, n))}] :
           k \in {0, 1, 9, 63}, n \in {0, 1, 63, 64, 65, 72}}

\* OptimizedQuantumDES(key_bits).key
CallOptimizedKey ==
    /\ vq.fn = "derive_key" /\ vq.adapter = "OptimizedQuantumDES"
    /\ vres = Pending
    /\ vres' = Returned(KeyBytes(vq.key_bits))
    /\ UNCHANGED <<vq, cacheVars, retryVars, serverVars>>

\* QuantumDES(quantum_key).key
CallQuantumDesKey ==
    /\ vq.fn = "derive_key" /\ vq.adapter = "QuantumDES"
    /\ vres = Pending
    /\ vres' = BitsToBytes(vq.key_bits)
    /\ UNCHANGED <<vq, cacheVars, retryVars, serverVars>>

\* quantum_key_distribution: the bases drawn and the state measured in each
\* trial are what the random source and the simulator give; the function is
\* computed from them.
MaxQkdBits == 1

\* One trial: the two bases drawn and the measured state, a string of two bits.
Trials ==
    [alice_basis : {0, 1}, bob_basis : {0, 1}, measured_state : Bits(2)]

\* The list comprehension [i for i in range(len(keeps)) if keeps[i]], from
\* index `from` on.
RECURSIVE Comprehend(_, _)
Comprehend(from, keeps) ==
    IF from >= Len(keeps) THEN <<>>
    ELSE (IF keeps[from + 1] THEN <<from>> ELSE <<>>) \o Comprehend(from + 1, keeps)

\* A mutant of QuantumKeyDistribution: no sifting, every trial is kept.
QuantumKeyDistributionUnsifted(num_bits, trials) ==
    LET n == 2 * num_bits
        alice_bits == [i \in 1..n |-> trials[i].measured_state[1]]
        bob_bits == [i \in 1..n |-> trials[i].measured_state[2]]
        matching_bases == [i \in 1..n |-> i - 1]
    IN <<alice_bits, alice_bits, bob_bits, matching_bases>>

\* quantum_key_distribution(num_bits): 2 * num_bits trials, then the trials
\* with equal bases are kept.  Python indexes from 0, the sequences from 1.
QuantumKeyDistribution(num_bits, trials) ==
    LET n == Max(0, num_bits * 2)
        alice_bases == [i \in 1..n |-> trials[i].alice_basis]
        bob_bases == [i \in 1..n |-> trials[i].bob_basis]
        alice_bits == [i \in 1..n |-> trials[i].measured_state[1]]
        bob_bits == [i \in 1..n |-> trials[i].measured_state[2]]
        same == [i \in 1..Len(alice_bases) |-> alice_bases[i] = bob_bases[i]]
        matching_bases == Comprehend(0, same)
        key_bits == [j \in 1..Len(matching_bases) |-> alice_bits[matching_bases[j] + 1]]
    IN <<key_bits,
         [j \in 1..Len(matching_bases) |-> alice_bits[matching_bases[j] + 1]],
         [j \in 1..Len(matching_bases) |-> bob_bits[matching_bases[j] + 1]],
         matching_bases>>

\* Calls with every outcome of 2 * MaxQkdBits trials at hand.
QkdCalls ==
    [fn : {"quantum_key_distribution"}, num_bits : 0..MaxQkdBits,
     trials : [1..(2 * MaxQkdBits) -> Trials]]

CallQuantumKeyDistribution ==
    /\ vq.fn = "quantum_key_distribution"
    /\ vres = Pending
    /\ vres' = Returned(QuantumKeyDistribution(vq.num_bits, vq.trials))
    /\ UNCHANGED <<vq, cacheVars, retryVars, serverVars>>

(* ---- quantumkey.main ---- *)
\* target_key_length = 16
MainKeyLength == 16

\* The names main can read: its own locals and the names the module defines.
MainNames ==
    {"target_key_length", "shared_key", "alice_bits", "bob_bits", "matching_bases",
     "is_secure", "error_rate", "final_alice", "final_bob", "final_key",
     "QuantumCircuit", "QuantumRegister", "ClassicalRegister", "AerSimulator",
     "np", "hashlib", "create_bell_pair", "measure_bell_state",
     "quantum_key_distribution", "verify_bell_inequality", "estimate_error_rate",
     "privacy_amplification", "main"}

\* [name[i] for i in matching_bases]: the name is looked up once per element,
\* so an unknown name raises only when there is an element.  Neither name main
\* indexes this way is known, so the only list ever built is the empty one.
BasesOfMatching(name, matching_bases) ==
    IF matching_bases # <<>> /\ name \notin MainNames THEN RaisedError("NameError")
    ELSE Returned(<<>>)

\* What main returns, and the line it prints last.
MainResult(value, printed) ==
    [verdict |-> "returned", value |-> value, printed |-> printed]

\* main from step 2 on, np.random.choice drawing the index set sample.
MainAfterCheck(alice_bits, bob_bits, sample) ==
    LET estimate == EstimateErrorRate(alice_bits, bob_bits, PyNone, sample)
    IN IF estimate.verdict = "raised"
       THEN MainResult(PyNone, "An error occurred")
       ELSE LET error_rate == estimate.value.error_rate
                final_alice == estimate.value.remaining_bits1
                final_bob == estimate.value.remaining_bits2
            IN IF RateDiscards(RateVerdict(error_rate.num, error_rate.den))
               THEN MainResult(PyNone, RateVerdict(error_rate.num, error_rate.den))
               ELSE IF final_alice = final_bob
               THEN MainResult(PyList(PrivacyAmplification(final_alice, PyNone).amplified_key),
                               "Final key")
               ELSE MainResult(PyNone, "Keys do not match")

\* The trials main's one call of quantum_key_distribution may go through: the
\* first k with equal bases, the others with differing ones, Bob's bit equal
\* to Alice's or flipped.
MainTrials ==
    {[i \in 1..(2 * MainKeyLength) |->
         [alice_basis |-> basis,
          bob_basis |-> IF i <= k THEN basis ELSE 1 - basis,
          measured_state |-> <<bit, IF flipped THEN 1 - bit ELSE bit>>]] :
     k \in {0, 1, MainKeyLength, 2 * MainKeyLength}, basis \in {0, 1}, bit \in {0, 1},
     flipped \in BOOLEAN}

MainCalls == [fn : {"main"}, trials : MainTrials]

\* main(): an exception anywhere is caught, printed, and None is returned.
CallMain ==
    /\ vq.fn = "main"
    /\ vres = Pending
    /\ LET qkd == QuantumKeyDistribution(MainKeyLength, vq.trials)
           alice_bits == qkd[2]
           bob_bits == qkd[3]
           matching_bases == qkd[4]
           alice_arg == BasesOfMatching("alice_bases", matching_bases)
           bob_arg == BasesOfMatching("bob_bases", matching_bases)
       IN IF alice_arg.verdict = "raised" \/ bob_arg.verdict = "raised"
          THEN vres' = MainResult(PyNone, "An error occurred")
          ELSE IF ~VerifyBellInequality(alice_bits, bob_bits, alice_arg.value, bob_arg.value)
          THEN vres' = MainResult(PyNone, "Possible eavesdropping detected")
          ELSE \E sample \in SUBSET (0..(Len(alice_bits) - 1)) :
                  /\ Cardinality(sample) = SampleSize(alice_bits, PyNone)
                  /\ vres' = MainAfterCheck(alice_bits, bob_bits, sample)
    /\ UNCHANGED <<vq, cacheVars, retryVars, serverVars>>

HelperCalls ==
    BellCalls \cup QberCalls \cup EstimateCalls \cup AmplifyCalls \cup DeriveKeyCalls
        \cup QkdCalls \cup MainCalls

InitHelpers ==
    /\ cache = FreshCache
    /\ IdleCacheClients
    /\ IdleRetry
    /\ IdleServer
    /\ vq \in HelperCalls
    /\ vres = Pending

NextHelpers ==
    \/ CallVerifyBell
    \/ CallCalculateQber
    \/ CallEstimateErrorRate
    \/ CallPrivacyAmplification
    \/ CallOptimizedKey
    \/ CallQuantumDesKey
    \/ CallQuantumKeyDistribution
    \/ CallMain

SpecHelpers == InitHelpers /\ [][NextHelpers]_vars

\* The call under examination has returned.
HasReturned(fn) == vq.fn = fn /\ vres.verdict = "returned"

\* C11: verify_bell_inequality classifies an ideal channel as secure: with at
\* least one trial, every basis pair one of the four combinations and equal
\* bits on every trial, it returns True.
C11_IdealChannelSecure ==
    ( /\ HasReturned("verify_bell_inequality")
      /\ Len(vq.alice_bits) >= 1
      /\ \A i \in 1..Len(vq.alice_bits) : Qualifies(vq.alice_bases[i], vq.bob_bases[i])
      /\ vq.alice_bits = vq.bob_bits )
    => vres.value = TRUE

\* A call of one of the two error-rate functions has ended.
RateCallDone ==
    /\ vq.fn \in {"calculate_qber", "estimate_error_rate"}
    /\ vres # Pending

DefaultSample == vq.fn = "estimate_error_rate" => vq.sample_size = PyNone

RateIs(num, den) ==
    /\ vres.verdict = "returned"
    /\ vres.value.error_rate.num * den = num * vres.value.error_rate.den

\* C12: for two bit lists of equal nonzero length, calculate_qber and
\* estimate_error_rate (sample_size not given) return 0.0 when the lists are
\* identical and 1.0 when the second is the complement of the first.
C12_RateOfEqualAndComplement ==
    (RateCallDone /\ DefaultSample /\ Len(vq.bits1) >= 1 /\ Len(vq.bits2) = Len(vq.bits1))
    => /\ vq.bits2 = vq.bits1 => RateIs(0, 1)
       /\ vq.bits2 = Complement(vq.bits1) => RateIs(1, 1)

\* C13: on empty input or on lists of different lengths, calculate_qber and
\* estimate_error_rate return the rate 0.0 and do not raise.
C13_NoInformationIsZero ==
    (RateCallDone /\ (Len(vq.bits1) = 0 \/ Len(vq.bits2) = 0 \/ Len(vq.bits1) # Len(vq.bits2)))
    => RateIs(0, 1)

\* C14: with sample_size not given or 0, estimate_error_rate samples
\* min(100, max(1, len(bits1) // 4)) positions (at least 1 for a nonempty
\* input) and returns (disagreeing sampled positions) / sample_size, a rate
\* in [0, 1].
C14_DefaultSampleSize ==
    ( /\ vq.fn = "estimate_error_rate" /\ vres # Pending
      /\ ~Truthy(vq.sample_size)
      /\ Len(vq.bits1) >= 1 /\ Len(vq.bits2) = Len(vq.bits1) )
    => /\ vres.verdict = "returned"
       /\ vres.value.error_rate.den = Min(100, Max(1, Len(vq.bits1) \div 4))
       /\ Cardinality(vres.value.sample_indices) = vres.value.error_rate.den
       /\ vres.value.error_rate.num =
             Cardinality({i \in vres.value.sample_indices :
                             Item(vq.bits1, i) # Item(vq.bits2, i)})
       /\ vres.value.error_rate.num <= vres.value.error_rate.den

\* C15: the residual lists estimate_error_rate returns hold exactly the bits
\* at the indices that were not sampled, in ascending index order, and have
\* length len(bits1) - sample_size.
C15_ResidualInOrder ==
    HasReturned("estimate_error_rate") =>
        LET unsampled == Ascending((0..(Len(vq.bits1) - 1)) \ vres.value.sample_indices)
        IN /\ Len(vres.value.remaining_bits1) =
                 Len(vq.bits1) - SampleSize(vq.bits1, vq.sample_size)
           /\ vres.value.remaining_bits1 =
                 [j \in 1..Len(unsampled) |-> Item(vq.bits1, unsampled[j])]
           /\ vres.value.remaining_bits2 =
                 [j \in 1..Len(unsampled) |-> Item(vq.bits2, unsampled[j])]

\* C16: privacy_amplification returns as many bits as requested: final_length
\* of them for every positive final_length, and max(len(key_bits) // 2, 8)
\* when final_length is not given, for inputs of every length.
C16_LengthAsRequested ==
    HasReturned("privacy_amplification") =>
        /\ (vq.final_length # PyNone /\ vq.final_length.v > 0) =>
              Len(vres.value.amplified_key) = vq.final_length.v
        /\ vq.final_length = PyNone =>
              Len(vres.value.amplified_key) = Max(Len(vq.key_bits) \div 2, 8)

\* C17: privacy_amplification packs each full group of 8 bits into a byte,
\* first bit most significant, and a final group of k < 8 bits as the value
\* of its k bits times 2^(8-k) (zero bits appended at the low end).
C17_RemainderPaddedLow ==
    HasReturned("privacy_amplification") =>
        LET n == Len(vq.key_bits)
            padded == vq.key_bits \o [i \in 1..((8 - (n % 8)) % 8) |-> 0]
        IN /\ Len(vres.value.key_bytes) = Len(padded) \div 8
           /\ \A g \in 1..Len(vres.value.key_bytes) :
                 vres.value.key_bytes[g] = BinaryValue(padded, 8 * (g - 1) + 1, 8 * g)

\* C18: both adapters derive exactly 8 key bytes from every bit list: byte i
\* from bits 8i..8i+7, most significant first, of the first 64 bits of the
\* list after zero bits are appended to a list shorter than 64.
C18_KeyFromFirst64Bits ==
    (vq.fn = "derive_key" /\ vres # Pending) =>
        LET padded == vq.key_bits \o [i \in 1..Max(0, 64 - Len(vq.key_bits)) |-> 0]
        IN /\ vres.verdict = "returned"
           /\ vres.value = [b \in 1..8 |-> BinaryValue(padded, 8 * (b - 1) + 1, 8 * b)]

\* The request data names none of the reasons for rejection: the field, the
\* key_type, one of the two key types, and a key cached for it.
Acceptable(data, field) ==
    /\ data.tag = "dict"
    /\ field \in DOMAIN data.v
    /\ "key_type" \in DOMAIN data.v
    /\ data.v["key_type"] \in {PyStr("classic"), PyStr("quantum")}
    /\ RoleOf(cache, data.v["key_type"].v) # PyNone

\* The answer of a cipher operation that gave text (or raised).
CipherAnswer(r, field, text) ==
    IF text = Raised THEN r.code = 500
    ELSE r.code = 200 /\ field \in DOMAIN r /\ r[field] = text

C20_InitKeysReturnsAll ==
    \A t \in Workers :
        ( /\ pc[t] = "idle" /\ req[t].op = "init_keys" /\ req[t].method = "POST"
          /\ resp[t].code = 200 )
        => /\ PyList(resp[t].classic_key) = RoleOf(cache, "classic")
           /\ PyList(resp[t].quantum_key) = RoleOf(cache, "quantum")
           /\ RoleOf(cache, "eve") # PyNone
           /\ resp[t].qber.num * KeyLen =
                 (KeyLen - Matches(RoleOf(cache, "quantum").v, RoleOf(cache, "eve").v))
                 * resp[t].qber.den
           /\ "eve_key" \in DOMAIN resp[t]
           /\ PyList(resp[t].eve_key) = RoleOf(cache, "eve")


\* The statuses of an eve_attack answered with 200, by branch.
ClassicStatuses == {"cracked", "progress"}

QuantumStatuses == {"detected_safe", "detected_reinit"}

\* C21: every eve_attack answered with 200 has one of four statuses; key_type
\* classic gives cracked or progress, any other key_type gives detected_safe or
\* detected_reinit, and new_quantum_key is in the response exactly when the
\* status is detected_reinit.
C21_EveStatuses ==
    \A t \in Workers :
        (/\ pc[t] = "idle"
         /\ req[t].op = "eve_attack"
         /\ resp[t].code = 200)
        => /\ "status" \in DOMAIN resp[t]
           /\ resp[t].status \in ClassicStatuses \union QuantumStatuses
           /\ IsClassic(t)
                 => resp[t].status \in ClassicStatuses
           /\ ~IsClassic(t)
                 => resp[t].status \in QuantumStatuses
           /\ ("new_quantum_key" \in DOMAIN resp[t])
                 <=> (resp[t].status = "detected_reinit")

\* An attack on the quantum key was answered with a regenerated key.
C21_Witness ==
    \E t \in Workers :
        /\ EveAnswered(t, "quantum")
        /\ resp[t].code = 200
        /\ resp[t].status = "detected_reinit"
        /\ "new_quantum_key" \in DOMAIN resp[t]

\* The agreeing positions of the classic key a request read and its guess.
Agreeing(t) == Matches(loc[t].current_key.v, loc[t].eve_attempt_key)

\* What an answered attack on the classic key leaves behind.
ClassicVerdict(t) ==
    EveAnswered(t, "classic")
    => /\ resp[t].code = 200
       /\ resp[t].matches = Agreeing(t)
       /\ (resp[t].status = "cracked") <=> (Agreeing(t) > 48)
       /\ RoleOf(cache, "classic") = loc[t].current_key
       /\ resp[t].status = "cracked"
             => RoleOf(cache, "eve") = RoleOf(cache, "classic")
       /\ resp[t].status /= "cracked"
             => /\ resp[t].status = "progress"
                /\ RoleOf(cache, "eve") = PyList(loc[t].eve_attempt_key)

\* C22: eve_attack on the classic key: after the drawn number of positions of
\* the guess was overwritten with key bits, the status is cracked exactly when
\* more than 48 of the 64 positions agree (48 gives progress); on cracked the
\* cached eve key is the full classic key, on progress the cached classic key
\* is as it was and the eve slot keeps the guess; and no overwrite lowers the
\* number of agreeing positions.
C22_ClassicCrack ==
    /\ [](serial => ClassicVerdict("w1"))
    /\ [][(serial /\ pc["w1"] = "ea_loop" /\ pc'["w1"] = "ea_loop")
             => /\ Agreeing("w1")' >= Agreeing("w1")
                /\ RoleOf(cache, "classic")' = RoleOf(cache, "classic")]_vars

\* Exactly 48 positions agree after the loop, and the answer is progress.
C22_Witness ==
    /\ EveAnswered("w1", "classic")
    /\ resp["w1"].status = "progress"
    /\ Agreeing("w1") = 48
    /\ loc["w1"].i = loc["w1"].correct_bits
    /\ loc["w1"].i >= 32

\* The elements of a sequence.
Range(seq) == {seq[j] : j \in 1..Len(seq)}

\* C23: quantum_key_distribution(n) runs exactly 2n trials; matching_bases is
\* the strictly increasing list of exactly the trial indices in [0, 2n) whose
\* two bases are equal; shared_key, alice_bits and bob_bits have the length of
\* matching_bases and hold, in trial order, the bits measured in those trials
\* (shared_key being the returned alice_bits), so no bit of a trial with
\* differing bases is in the agreed key.
C23_SiftedKey ==
    HasReturned("quantum_key_distribution")
    => LET key_bits == vres.value[1]
           alice_bits == vres.value[2]
           bob_bits == vres.value[3]
           matching_bases == vres.value[4]
           n == 2 * vq.num_bits
       IN /\ \A j \in 1..(Len(matching_bases) - 1) :
                 matching_bases[j] < matching_bases[j + 1]
          /\ Range(matching_bases)
                = {i \in 0..(n - 1) :
                       vq.trials[i + 1].alice_basis = vq.trials[i + 1].bob_basis}
          /\ Len(key_bits) = Len(matching_bases)
          /\ Len(alice_bits) = Len(matching_bases)
          /\ Len(bob_bits) = Len(matching_bases)
          /\ \A j \in 1..Len(matching_bases) :
                 /\ alice_bits[j] = vq.trials[matching_bases[j] + 1].measured_state[1]
                 /\ bob_bits[j] = vq.trials[matching_bases[j] + 1].measured_state[2]
          /\ key_bits = alice_bits

\* The first trial had differing bases and measured 1, the second had equal
\* bases and measured 0: the key is the second trial's bit alone.
C23_Witness ==
    /\ HasReturned("quantum_key_distribution")
    /\ vq.num_bits = 1
    /\ vq.trials[1].alice_basis /= vq.trials[1].bob_basis
    /\ vq.trials[1].measured_state = <<1, 1>>
    /\ vq.trials[2].measured_state = <<0, 1>>
    /\ vres.value = << <<0>>, <<0>>, <<1>>, <<1>> >>

\* One of the three generations of t's init_keys has raised.
GenerationRaised(t) ==
    /\ pc[t] = "ik_wait"
    /\ \E k \in TaskNames : tasks[t][k].st = "raised"

\* t's init_keys is between its first and its last cache.set.
Committing(t) == pc[t] \in {"ik_set_quantum", "ik_set_eve"}

\* C24: init_keys is all-or-nothing with respect to failure: when one of the
\* three generations raises, the request is answered with 500 and writes none
\* of the three cached roles; the three writes happen only after all three
\* generations have succeeded.
C24_InitKeysAllOrNothing ==
    /\ [](\A t \in Workers :
             Committing(t) => \A k \in TaskNames : tasks[t][k].st = "done")
    /\ [][\A t \in Workers :
             /\ (GenerationRaised(t) /\ pc'[t] /= pc[t])
                   => /\ pc'[t] = "idle"
                      /\ resp'[t].code = 500
                      /\ cache' = cache
             /\ (pc[t] = "ik_wait" /\ Committing(t)')
                   => \A k \in TaskNames : tasks[t][k].st = "done"]_vars

\* An init_keys whose generation raised was answered with 500 while the keys of
\* an earlier init_keys are in the cache.
C24_Witness ==
    \E t \in Workers :
        /\ pc[t] = "idle"
        /\ req[t] = [op |-> "init_keys", method |-> "POST"]
        /\ resp[t].code = 500
        /\ \A role \in Roles : Truthy(RoleOf(cache, role))

\* t's last request was an init_keys that committed its three keys.
InitKeysDone(t) ==
    /\ pc[t] = "idle"
    /\ req[t] = [op |-> "init_keys", method |-> "POST"]
    /\ resp[t].code = 200

\* The cache holds the three keys that t's init_keys generated.
HoldsKeysOf(t) ==
    /\ RoleOf(cache, "classic") = PyList(loc[t].classic_key)
    /\ RoleOf(cache, "quantum") = PyList(loc[t].quantum_key)
    /\ RoleOf(cache, "eve") = PyList(loc[t].eve_bits)

\* C25: the commit of init_keys is not observable half-done: once two
\* concurrent init_keys requests have both completed, the cache holds the
\* classic, quantum and eve keys of one single invocation, never the key of one
\* role from one invocation with the key of another role from the other.
C25_CommitOfOneInvocation ==
    (\A t \in Workers : InitKeysDone(t)) => \E t \in Workers : HoldsKeysOf(t)

\* An ideal channel: some trials have equal bases, and in each of them Bob
\* measured the bit Alice measured.
IdealChannel(trials) ==
    /\ \E i \in DOMAIN trials : trials[i].alice_basis = trials[i].bob_basis
    /\ \A i \in DOMAIN trials :
           trials[i].alice_basis = trials[i].bob_basis
           => trials[i].measured_state[1] = trials[i].measured_state[2]

\* C26: the accept path of quantumkey.main: over an ideal channel (identical
\* bits of Alice and Bob on all matching trials, estimated error rate 0) the
\* flow passes the correlation check and the threshold decision, applies
\* privacy amplification to the residual key and returns a final key.
C26_IdealChannelAccepted ==
    (HasReturned("main") /\ IdealChannel(vq.trials))
    => /\ vres.value.tag = "list"
       /\ vres.printed = "Final key"

\* Thread t leaves the body of set("keys", role, value) in this step.
SetReturns(t) ==
    /\ cpc[t] = "body"
    /\ ccall[t].op = "set"
    /\ cpc'[t] = "exit"

\* C27: the round trip of the cache: for every role and every value v, None
\* included, right after set("keys", role, v) a get("keys", role) returns v
\* and the values of the other two roles are what they were.
C27_SetGetRoundTrip ==
    [][\A t \in CThreads :
          SetReturns(t)
          => /\ RoleOf(cache, ccall[t].subkey.v)' = ccall[t].value
             /\ \A other \in Roles \ {ccall[t].subkey.v} :
                    RoleOf(cache, other)' = RoleOf(cache, other)]_vars

(* ------------------------------------------------------------------ *)
(* QuantumCircuitPool with its circuits told apart (SpecPool)           *)
(* ------------------------------------------------------------------ *)
\* The circuit objects are numbered in the order they are built; the callers
\* are threads inside generate_quantum_key, one per worker and future.
\* No more circuits than this are built.
MaxCircuits == 10

\* _initialize_pool on the pool p when n circuits were built before.
PoolInitialized(p, n) == p \o [i \in 1..PoolSize |-> n + i]

InitPool ==
    /\ cache = FreshCache
    /\ IdleCacheClients
    /\ IdleVerdict
    /\ IdleRetry
    /\ serial = FALSE
    /\ pc = [t \in Workers |-> "idle"]
    /\ req = [t \in Workers |-> NoReq]
    /\ loc = [t \in Workers |-> EmptyLoc]
    /\ resp = [t \in Workers |-> NoResp]
    /\ tasks = [t \in Workers |-> [k \in TaskNames |-> NoTask]]
    /\ pool = PoolInitialized(<<>>, 0)
    /\ ncirc = PoolSize
    /\ eveAlias = "none"
    /\ nreq = 0
    /\ sent = NoSent

\* get_circuit(), under self.lock: an empty pool is filled again, then the last
\* circuit is popped.
GetCircuit(t, k) ==
    /\ tasks[t][k].st = "off"
    /\ Len(pool) > 0 \/ ncirc + PoolSize <= MaxCircuits
    /\ LET p == IF Len(pool) = 0 THEN PoolInitialized(pool, ncirc) ELSE pool
       IN /\ tasks' = [tasks EXCEPT ![t][k].st = "run", ![t][k].circuit = p[Len(p)]]
          /\ pool' = SubSeq(p, 1, Len(p) - 1)
          /\ ncirc' = IF Len(pool) = 0 THEN ncirc + PoolSize ELSE ncirc
    /\ UNCHANGED <<cache, serial, pc, req, loc, resp, eveAlias, nreq, sent, notServerVars>>

\* return_circuit(circuit), under self.lock, at the end of generate_quantum_key.
ReturnCircuit(t, k) ==
    /\ tasks[t][k].st = "run"
    /\ pool' = PoolReturn(pool, tasks[t][k].circuit)
    /\ tasks' = [tasks EXCEPT ![t][k] = NoTask]
    /\ UNCHANGED <<cache, serial, pc, req, loc, resp, ncirc, eveAlias, nreq, sent,
                   notServerVars>>

\* The measurement loop raises: generate_quantum_key ends without
\* return_circuit, and nothing refers to the circuit any more.
LoopRaises(t, k) ==
    /\ tasks[t][k].st = "run"
    /\ tasks' = [tasks EXCEPT ![t][k] = NoTask]
    /\ UNCHANGED <<cache, serial, pc, req, loc, resp, pool, ncirc, eveAlias, nreq, sent,
                   notServerVars>>

NextPool ==
    \E t \in Workers, k \in TaskNames :
        \/ GetCircuit(t, k)
        \/ ReturnCircuit(t, k)
        \/ LoopRaises(t, k)

SpecPool == InitPool /\ [][NextPool]_vars

\* The callers that hold a circuit, and the circuit each holds.
Holders == {c \in Workers \X TaskNames : tasks[c[1]][c[2]].st = "run"}

Held(c) == tasks[c[1]][c[2]].circuit

\* C28: under any interleaving of get_circuit and return_circuit from several
\* threads the pool holds between 0 and pool_size circuits, get_circuit always
\* returns a circuit (an empty pool is filled again), and no circuit is checked
\* out to two callers at the same time (nor lies in the pool while checked
\* out, or twice in the pool).
C28_PoolDiscipline ==
    /\ Len(pool) \in 0..PoolSize
    /\ \A c \in Holders : Held(c) \in 1..ncirc
    /\ \A c, d \in Holders : c /= d => Held(c) /= Held(d)
    /\ \A c \in Holders : \A i \in 1..Len(pool) : pool[i] /= Held(c)
    /\ \A i, j \in 1..Len(pool) : i /= j => pool[i] /= pool[j]

\* The pool was filled a second time, is full again, and a caller still holds
\* a circuit: its return will be dropped.
C28_Witness ==
    /\ ncirc = 2 * PoolSize
    /\ Len(pool) = PoolSize
    /\ Holders /= {}

\* The step is one of worker t's request (or of one of its futures).
Acts(t) == <<pc[t], req[t], loc[t], resp[t], tasks[t]>>' /= <<pc[t], req[t], loc[t], resp[t], tasks[t]>>

\* The request t is serving names the classic key.
AttacksClassic(t) ==
    /\ req[t].op = "eve_attack"
    /\ Truthy(req[t].data)
    /\ HasField(req[t].data, "key_type")
    /\ req[t].data.v["key_type"] = PyStr("classic")

\* C29: the frame of the endpoints: no step of encrypt or decrypt changes a
\* cached key; no step of eve_attack changes the cached classic key; no step
\* of an eve_attack on the classic key changes the cached quantum key; and an
\* eve_attack answered with 400 changes nothing in the cache.
C29_EndpointFrames ==
    [][\A t \in Workers :
          Acts(t)
          => /\ req'[t].op \in {"encrypt", "decrypt"} => cache' = cache
             /\ req'[t].op = "eve_attack"
                   => RoleOf(cache, "classic")' = RoleOf(cache, "classic")
             /\ AttacksClassic(t)'
                   => RoleOf(cache, "quantum")' = RoleOf(cache, "quantum")
             /\ (req'[t].op = "eve_attack"
                    /\ (pc'[t] = "ea_get_eve" \/ resp'[t].code = 400))
                   => cache' = cache]_vars

\* An attack on the classic key has stored its guess in the eve slot, and the
\* classic and quantum keys are still the keys of init_keys.
C29_Witness ==
    \E t \in Workers :
        /\ EveAnswered(t, "classic")
        /\ resp[t].code = 200
        /\ RoleOf(cache, "eve") = PyList(loc[t].eve_attempt_key)
        /\ RoleOf(cache, "classic") = loc[t].current_key
        /\ IsKey(RoleOf(cache, "quantum"))
        /\ RoleOf(cache, "quantum") /= RoleOf(cache, "eve")

\* Every role holds a key.
Initialized == \A role \in Roles : Truthy(RoleOf(cache, role))

\* C30: the key lifecycle: once an init_keys request has succeeded, every role
\* (classic, quantum, eve) stays initialized in all later states, under any
\* interleaving of init_keys, encrypt, decrypt and eve_attack requests, failing
\* ones included: no step returns a role to None, and an encrypt or decrypt
\* that starts then is never refused for a missing key.
C30_KeysStayInitialized ==
    /\ [](\A t \in Workers : InitKeysDone(t) => Initialized)
    /\ [][Initialized => Initialized']_vars
    /\ [][\A t \in Workers :
             (Initialized /\ Acts(t) /\ req'[t].op \in {"encrypt", "decrypt"})
             => resp'[t] /= Error(400, "No key initialized")]_vars

\* With the keys of an init_keys in the cache, an attack on the quantum key
\* failed with 500 while regenerating, and every role still holds a key.
C30_Witness ==
    \E t \in Workers :
        /\ EveAnswered(t, "quantum")
        /\ resp[t].code = 500
        /\ Initialized
====
